---- MODULE Spec2Model ----
(***************************************************************************)
(* Orchestration and consensus engine of the TravelPlanner backend.        *)
(*                                                                         *)
(* One trip document, the preferences submitted for it, and the handlers   *)
(* and background tasks that read and write it.  Every handler is an       *)
(* asyncio coroutine: it runs atomically between two awaits, so each       *)
(* action below is the code between two awaits that touch the trips        *)
(* collection (find_one / update_one).  What a coroutine read before an    *)
(* await is kept in its task record and is what it writes back later.      *)
(***************************************************************************)
EXTENDS Integers, Sequences, FiniteSets, Bags, TLC

(* ------------------------------- bounds -------------------------------- *)
NumMembers == 2        \* members of the trip
MaxInFlight == 2       \* HTTP requests being served at the same time

(* -------------------------- program constants -------------------------- *)
MAX_STEPS == 20        \* supervisor_agent: MAX_STEPS
RECURSION_LIMIT_DEFAULT == 25 \* the limit of a graph invoked without a config
RECURSION_LIMIT == 50  \* config = {"recursion_limit": 50}
DEFAULT_DURATION == 7  \* trigger_all_in: trip_duration_days = 7 when no dates
GENERATE_DEFAULT_DURATION == 3 \* generate_itinerary_now: trip_duration_days or 3

Members == 1..NumMembers

PhaseOrder == <<"destination_decision", "date_selection",
                "activity_voting", "itinerary_approval">>
PhaseNames == {PhaseOrder[i] : i \in 1..Len(PhaseOrder)}

\* WORKERS registry keys, in the order of the dict literal
WORKERS == {"preference_processor", "consensus_resolver",
            "destination_researcher", "itinerary_planner"}

\* Python's None for a scalar field, and the two ways current_phase is absent:
\* the key present with value None, or the key removed by $unset.
None == "None"
Missing == "missing"

(* ------------------------- sequence helpers ---------------------------- *)
Range(s) == {s[i] : i \in 1..Len(s)}

\* x in list
InSeq(x, s) == \E i \in 1..Len(s) : s[i] = x

\* list.remove(x): removes the first occurrence only
RemoveFirst(s, x) ==
  IF ~InSeq(x, s) THEN s
  ELSE LET i == CHOOSE k \in 1..Len(s) : s[k] = x /\ \A j \in 1..(k-1) : s[j] # x
       IN  SubSeq(s, 1, i-1) \o SubSeq(s, i+1, Len(s))

\* number of occurrences of v in s
CountIn(s, v) == Cardinality({i \in 1..Len(s) : s[i] = v})

\* keys of a Counter built from s, in insertion (first occurrence) order
RECURSIVE CounterKeys(_)
CounterKeys(s) ==
  IF s = <<>> THEN <<>>
  ELSE LET h == s[1]
           rest == SelectSeq(Tail(s), LAMBDA v : v # h)
       IN  <<h>> \o CounterKeys(rest)

\* a tie list that keeps every requested value, whatever its count
EveryCounterKey(s) == CounterKeys(s)

\* the values with the highest count, in Counter.most_common() order
\* (most_common is a stable sort by count, so ties keep insertion order)
TopOfCounter(s) ==
  LET keys == CounterKeys(s)
      best == IF s = <<>> THEN 0
              ELSE CHOOSE n \in 1..Len(s) :
                     /\ \E k \in Range(keys) : CountIn(s, k) = n
                     /\ \A k \in Range(keys) : CountIn(s, k) <= n
  IN  SelectSeq(keys, LAMBDA k : CountIn(s, k) = best)

\* the permutations of a finite set, as sequences (list(set) has no fixed order)
Orderings(S) ==
  {f \in [1..Cardinality(S) -> S] : \A i, j \in 1..Cardinality(S) : i # j => f[i] # f[j]}

(* ------------------------------ inputs --------------------------------- *)
\* A date range "YYYY-MM-DD:YYYY-MM-DD" is a pair <<first day, last day>> of day
\* numbers; a preference document is [user_id, destination, available_dates].
Pref(u, d, dates) == [user_id |-> u, destination |-> d, available_dates |-> dates]

\* The preferences collection of the trip at the time planning is triggered.
PrefInputs ==
  { <<>>,                                                        \* nobody submitted
    << Pref(1, "a", << <<1, 5>> >>) >>,                          \* one member only
    << Pref(1, "a", << <<1, 5>> >>), Pref(2, "a", << <<1, 5>> >>) >>,
    << Pref(1, "a", << <<1, 5>> >>), Pref(2, "b", << <<3, 8>> >>) >>,
    << Pref(1, "a", << <<1, 5>>, <<7, 10>> >>), Pref(2, "a", << <<3, 8>> >>) >>,
    << Pref(1, "a", << <<1, 5>>, <<7, 10>> >>), Pref(2, "b", << <<3, 8>> >>) >>,
    << Pref(1, "a", << <<1, 5>> >>), Pref(2, "a", << <<10, 15>> >>) >> }

(* ------------------------------- state --------------------------------- *)
VARIABLES
  llm,          \* orchestrator_agent.llm is configured (OPEN_AI_API_KEY is set)
  db_errors,    \* get_all_trip_preferences may answer with "_error"
  api_errors,   \* a call of the OpenAI API by a worker may raise
  prefs,        \* the preferences collection (documents of this trip, in order)
  trip,         \* the trip document in the trips collection
  tasks,        \* bag of coroutines: HTTP requests and background tasks
  published,    \* kinds of event handed to broadcast_to_chat so far
  completions,  \* per phase, how many times its completed_at has been written
  activities,   \* the activities collection holds documents of this trip
  research_cache, \* DestinationResearchAgent._cache: destinations researched
  itinerary_cache, \* ItineraryAgent._cache holds a non-empty itinerary of this trip
  trip_deleted, \* delete_trip has removed the trip document (trip keeps its last content)
  activity_docs, \* the documents of the activities collection, in insertion order
  votes,        \* the votes collection: per member and activity name "up", "down" or no record
  selected_activities, \* agent_data["selected_activities"] of the latest selection
  api_calls     \* per worker, the attempts of its latest step to call the OpenAI API

vars == <<llm, db_errors, api_errors, prefs, trip, tasks, published, completions, activities, research_cache, itinerary_cache, trip_deleted, activity_docs, votes, selected_activities, api_calls>>

(* --------------------------- phase tracking ---------------------------- *)
\* A vote option value: a destination string or a date range.  Both kinds share
\* one record shape.
DestVal(d) == [dest |-> d, first |-> 0, last |-> 0]
DateVal(a, b) == [dest |-> "", first |-> a, last |-> b]
NoDates == DateVal(0, 0)         \* selected_dates = None
NoDays == 0                      \* trip_duration_days = None

\* (end_date - start_date).days + 1
DurationOf(r) == (r.last - r.first) + 1

PhaseData(status) ==
  [status |-> status, users_ready |-> <<>>, options |-> <<>>, date_options |-> <<>>]

\* Trip.phase_tracking default: PhaseTracking()
DefaultPhaseTracking ==
  [present |-> TRUE,
   current_phase |-> "destination_decision",
   phases |-> [p \in PhaseNames |-> PhaseData("pending")]]

\* phase_tracking = None
NonePhaseTracking ==
  [present |-> FALSE,
   current_phase |-> None,
   phases |-> [p \in PhaseNames |-> PhaseData("pending")]]

VoteOption(v) == [value |-> v, votes |-> 0, voters |-> <<>>]

\* the trip document inserted by create_trip
NewTrip ==
  [orchestrator_status |-> None,
   status |-> "collecting_preferences",
   destination |-> None,
   trip_duration_days |-> NoDays,
   selected_dates |-> NoDates,
   phase_tracking |-> DefaultPhaseTracking]

(* ----------------------------- AgentState ------------------------------ *)
\* agent_data keys read by the supervisor and the workers.  preferences_summary
\* is None, "ok" or "empty" (a summary with no members); activity_catalog and
\* itinerary are None, "empty" ([]) or "full".
\* warnings is None, "unavailable" (the list of a fallback payload, which
\* names the failure) or "result" (the list that came with a result).
AgentData(dest, days, pt, catalog) ==
  [destination |-> dest, trip_duration_days |-> days, phase_tracking |-> pt,
   preferences_summary |-> None, activity_catalog |-> catalog, itinerary |-> None,
   warnings |-> None]

\* a node that returns its own keys as the whole of agent_data: every other
\* key reads as in an empty bag
DictReplace(d, out) ==
  [k \in DOMAIN d |-> IF k \in DOMAIN out THEN out[k]
                      ELSE AgentData(None, NoDays, NonePhaseTracking, None)[k]]

\* agent_data = dict(state.get("agent_data")); agent_data.update(out): the keys
\* of out are replaced, every other key of the bag stays
DictUpdate(d, out) == [k \in DOMAIN d |-> IF k \in DOMAIN out THEN out[k] ELSE d[k]]

\* a return without any update of agent_data
NoUpdate == [k \in {} |-> None]

(* ----------------------- calls of the OpenAI API ----------------------- *)
\* max_retries of _build_catalog and of _build_itinerary
DESTINATION_MAX_RETRIES == 2
ITINERARY_MAX_RETRIES == 3

ApiWorkers == {"destination_researcher", "itinerary_planner"}

\* a loop that gives up after the first failed attempt
RetryOnce(max_retries, failures) ==
  [calls |-> 1, failed |-> IF failures > 0 THEN 1 ELSE 0]

\* for attempt in range(1, max_retries + 1): the API fails `failures` times
\* before it answers.  calls is the number of attempts made, failed the number
\* of those that raised; result is None exactly when failed = calls.
RetryLoop(max_retries, failures) ==
  [calls |-> IF failures < max_retries THEN failures + 1 ELSE max_retries,
   failed |-> IF failures < max_retries THEN failures ELSE max_retries]

\* a step that does not reach the API
NotCalled == [calls |-> 0, failed |-> 0]

NoCalls == [w \in ApiWorkers |-> NotCalled]

\* how many attempts of one call may fail before the API answers
ApiFailures(max_retries) == IF api_errors THEN 0..max_retries ELSE {0}

\* run_orchestrator_agent: base.update(initial_state).  nodes counts the node
\* executions of app.ainvoke(base, config = config).
BaseState(ad) ==
  [steps |-> 0, done |-> FALSE, next_task |-> "", reason |-> "", agent_data |-> ad,
   nodes |-> 0]

NoState == BaseState(AgentData(None, NoDays, NonePhaseTracking, None))
NoSnap == NewTrip

(* --------------------------- task records ------------------------------ *)
Task(kind, pc, user, phase, sel, snap, st, resp) ==
  [kind |-> kind, pc |-> pc, user |-> user, phase |-> phase, sel |-> sel,
   snap |-> snap, st |-> st, resp |-> resp]

RequestKinds == {"trigger", "vote", "mark_ready", "unmark_ready", "generate"}
LoopKinds == {"background", "vote_run", "itinerary_run"}

TaskSet == BagToSet(tasks)
Requests == {t \in TaskSet : t.kind \in RequestKinds}
NumRequests == BagCardinality([t \in Requests |-> tasks[t]])
InFlight == {t \in Requests : t.pc # "done"}
NumInFlight == BagCardinality([t \in InFlight |-> tasks[t]])

Spawn(t) == SetToBag({t})
Replace(old, new) == (tasks (-) SetToBag({old})) (+) new

\* the environment issues one more request while fewer than max were issued
Accepting(max) == NumRequests < max /\ NumInFlight < MaxInFlight

\* a request that has returned its response
Done(kind, user, phase, resp) ==
  Task(kind, "done", user, phase, {}, NoSnap, NoState, resp)

\* a background task, created by asyncio.create_task
Background(kind, pc, st) == Task(kind, pc, 0, "", {}, NoSnap, st, "")

(* ------------------------------- Init ---------------------------------- *)
\* create_trip: a fresh trip, all members joined, preferences as submitted.
(* ------------------------ the activities collection -------------------- *)
\* AllowedCategory
Categories == {"Food", "Nightlife", "Adventure", "Culture", "Relax", "Nature", "Other"}

\* An activity document as voting and selection read it.  score is kept in
\* tenths (votes move it by 0.1 and it is clamped to [0, 1]); net_score and
\* downvote_count hold what .get("net_score", 0) and .get("downvote_count", 0)
\* return.
ActivityDoc(name, category, score, net_score, downvote_count) ==
  [name |-> name, category |-> category, score |-> score,
   net_score |-> net_score, downvote_count |-> downvote_count]

\* Activity(trip_id, name, category, ..., score, rationale).model_dump(): the
\* document of a researched activity; the vote counts are not among the fields
\* the insert passes
InsertedDoc(name, category, score) == ActivityDoc(name, category, score, 0, 0)

\* the documents insert_many writes for a non-empty activity_catalog
CatalogDocs ==
  <<InsertedDoc("museum", "Culture", 10), InsertedDoc("hike", "Adventure", 5)>>

ActivityNames == {CatalogDocs[i].name : i \in 1..Len(CatalogDocs)}

\* delete_many followed by insert_many, when the catalog is not empty
PersistCatalog(catalog, docs) == IF catalog = "full" THEN CatalogDocs ELSE docs

\* no vote record at all
NoVotes == [u \in Members, a \in ActivityNames |-> "none"]

Init ==
  /\ llm \in BOOLEAN
  /\ db_errors \in BOOLEAN
  /\ api_errors \in BOOLEAN
  /\ prefs \in PrefInputs
  /\ trip = NewTrip
  /\ tasks = EmptyBag
  /\ published = {}
  /\ completions = [p \in PhaseNames |-> 0]
  /\ activities = FALSE
  /\ research_cache = {}
  /\ itinerary_cache = FALSE
  /\ trip_deleted = FALSE
  /\ activity_docs = <<>>
  /\ votes = NoVotes
  /\ selected_activities = <<>>
  /\ api_calls = NoCalls

\* members_with_preferences: the members that have a preferences document
MembersWithPrefs(ps) == {ps[i].user_id : i \in 1..Len(ps)}

(* ---------------------- trigger_all_in: aggregation -------------------- *)
\* all_date_ranges: every member's available_dates, concatenated
RECURSIVE AllDateRanges(_)
AllDateRanges(ps) ==
  IF ps = <<>> THEN <<>>
  ELSE ps[1].available_dates \o AllDateRanges(Tail(ps))

\* all_destinations: the destinations of the preferences that carry one
AllDestinations(ps) ==
  LET withDest == SelectSeq(ps, LAMBDA p : p.destination # None)
  IN  [i \in 1..Len(withDest) |-> withDest[i].destination]

\* the common part of every pair of submitted ranges, whether or not the two
\* ranges meet
OverlapsUnchecked(ranges) ==
  { DateVal(IF ranges[i][1] >= ranges[j][1] THEN ranges[i][1] ELSE ranges[j][1],
            IF ranges[i][2] <= ranges[j][2] THEN ranges[i][2] ELSE ranges[j][2]) :
      <<i, j>> \in { <<i, j>> \in (1..Len(ranges)) \X (1..Len(ranges)) : i < j } }

\* the overlaps of every pair of submitted ranges (a set)
Overlaps(ranges) ==
  { DateVal(IF ranges[i][1] >= ranges[j][1] THEN ranges[i][1] ELSE ranges[j][1],
            IF ranges[i][2] <= ranges[j][2] THEN ranges[i][2] ELSE ranges[j][2]) :
      <<i, j>> \in { <<i, j>> \in (1..Len(ranges)) \X (1..Len(ranges)) :
                       /\ i < j
                       /\ ranges[i][1] <= ranges[j][2]
                       /\ ranges[j][1] <= ranges[i][2] } }

\* What trigger_all_in derives from the preferences: destination, conflicts,
\* selected dates and duration.
Aggregate(ps, tripDestination) ==
  LET ranges == AllDateRanges(ps)
      common == IF ranges = <<>> THEN NoDates
                ELSE DateVal(TopOfCounter(ranges)[1][1], TopOfCounter(ranges)[1][2])
      dests == AllDestinations(ps)
      top == TopOfCounter(dests)
      destConflict == dests # <<>> /\ Len(top) > 1
      chosen == IF dests # <<>> /\ Len(top) = 1 THEN top[1] ELSE None
      destination == IF chosen = None /\ ~destConflict THEN tripDestination ELSE chosen
      checked == Len(ranges) > 1
      overlaps == IF checked THEN Overlaps(ranges) ELSE {}
      single == checked /\ Cardinality(overlaps) = 1
      selected == IF single THEN CHOOSE r \in overlaps : TRUE ELSE common
  IN  [destination |-> destination,
       has_destination_conflict |-> destConflict,
       tied_destinations |-> IF destConflict THEN top ELSE <<>>,
       no_compatible_dates |-> checked /\ overlaps = {},
       has_date_conflict |-> checked /\ Cardinality(overlaps) > 1,
       overlapping_date_ranges |-> overlaps,
       selected_dates |-> selected,
       trip_duration_days |-> IF ranges = <<>> THEN DEFAULT_DURATION
                              ELSE DurationOf(selected)]

\* phase_tracking written when a destination or date conflict was found;
\* dateOptions is list(overlaps) in some order
ConflictPhaseTracking(agg, dateOptions) ==
  [present |-> TRUE,
   current_phase |-> IF agg.has_destination_conflict THEN "destination_decision"
                     ELSE "date_selection",
   phases |->
     [p \in PhaseNames |->
        CASE p = "destination_decision" ->
               PhaseData(IF agg.has_destination_conflict THEN "active" ELSE "completed")
          [] p = "date_selection" ->
               [PhaseData(IF agg.has_destination_conflict THEN "pending"
                          ELSE IF agg.has_date_conflict THEN "active" ELSE "completed")
                  EXCEPT !.date_options = IF agg.has_date_conflict THEN dateOptions ELSE <<>>]
          [] OTHER -> PhaseData("pending")]]

\* phase_tracking written when there is no conflict
PlainPhaseTracking ==
  [present |-> TRUE,
   current_phase |-> None,
   phases |-> [p \in PhaseNames |->
                 IF p \in {"destination_decision", "date_selection"}
                 THEN PhaseData("completed") ELSE PhaseData("pending")]]

(* --------------------------- trigger_all_in ---------------------------- *)
\* a duplicate-trigger check that forgets the paused status
AlreadyStartedUnlessPaused(doc) ==
  \/ doc.orchestrator_status \in {"running", "completed"}
  \/ doc.status \in {"planning", "consensus"}

\* "Check if orchestrator already started previously"
AlreadyStarted(doc) ==
  \/ doc.orchestrator_status \in {"running", "paused", "completed"}
  \/ doc.status \in {"planning", "consensus"}

\* what the handler keeps of the trip_doc it read
TriggerSnap(doc) == [NewTrip EXCEPT !.destination = doc.destination]

\* find_one, then the duplicate-trigger check on the document read
TriggerRead ==
  /\ tasks' = tasks (+) Spawn(IF AlreadyStarted(trip)
                              THEN Done("trigger", 0, "", "already_started")
                              ELSE Task("trigger", "set_running", 0, "", {},
                                        TriggerSnap(trip), NoState, ""))
  /\ UNCHANGED <<llm, db_errors, api_errors, prefs, trip, published, completions, activities, research_cache, itinerary_cache, trip_deleted, activity_docs, votes, selected_activities, api_calls>>

\* update_one(orchestrator_status = running), then the members_with_preferences
\* check, which raises HTTP 400 when nobody submitted
TriggerSetRunning(t) ==
  /\ t.kind = "trigger" /\ t.pc = "set_running"
  /\ trip' = [trip EXCEPT !.orchestrator_status = "running"]
  /\ tasks' = Replace(t, Spawn(IF MembersWithPrefs(prefs) = {}
                               THEN Done("trigger", 0, "", "no_preferences")
                               ELSE [t EXCEPT !.pc = "aggregate"]))
  /\ UNCHANGED <<llm, db_errors, api_errors, prefs, published, completions, activities, research_cache, itinerary_cache, trip_deleted, activity_docs, votes, selected_activities, api_calls>>

\* the rest of the handler: aggregate, then either report incompatible dates,
\* or write the plan and phase_tracking and start run_orchestrator_background
TriggerPlan(t) ==
  /\ t.kind = "trigger" /\ t.pc = "aggregate"
  /\ LET agg == Aggregate(prefs, t.snap.destination) IN
       IF agg.no_compatible_dates
       THEN /\ published' = published \cup {"dates_incompatible"}
            /\ tasks' = Replace(t, Spawn(Done("trigger", 0, "", "dates_incompatible")))
            /\ UNCHANGED trip
       ELSE IF agg.has_destination_conflict \/ agg.has_date_conflict
       THEN \E order \in Orderings(agg.overlapping_date_ranges) :
            /\ trip' = [trip EXCEPT !.trip_duration_days = agg.trip_duration_days,
                                    !.selected_dates = agg.selected_dates,
                                    !.status = "consensus",
                                    !.phase_tracking = ConflictPhaseTracking(agg, order)]
            /\ published' = published \cup {"navigate_to_chat"}
            /\ tasks' = Replace(t, Spawn(Done("trigger", 0, "", "consensus"))
                                   (+) Spawn(Background("background", "init",
                                        BaseState(AgentData(None, agg.trip_duration_days,
                                                            NonePhaseTracking, None)))))
       ELSE /\ trip' = [trip EXCEPT !.destination = agg.destination,
                                    !.trip_duration_days = agg.trip_duration_days,
                                    !.selected_dates = agg.selected_dates,
                                    !.status = "planning",
                                    !.phase_tracking = PlainPhaseTracking]
            /\ published' = published \cup {"navigate_to_chat"}
            /\ tasks' = Replace(t, Spawn(Done("trigger", 0, "", "started"))
                                   (+) Spawn(Background("background", "init",
                                        BaseState(AgentData(agg.destination,
                                                            agg.trip_duration_days,
                                                            NonePhaseTracking, None)))))
  /\ UNCHANGED <<llm, db_errors, api_errors, prefs, completions, activities, research_cache, itinerary_cache, trip_deleted, activity_docs, votes, selected_activities, api_calls>>

(* ----------------------------- supervisor ------------------------------ *)
Truthy(x) == x # None

WaitingStatuses == {"voting_in_progress", "pending", "active"}

_needs_preference_processing(ad) == ad.preferences_summary = None

\* consensus wanted for a poll that is still collecting votes as well
_needs_consensus_while_voting(ad) ==
  LET pt == ad.phase_tracking
      cp == pt.current_phase
      status == pt.phases[cp].status
  IN  /\ pt.present
      /\ cp \in PhaseNames
      /\ ~(cp \in {"activity_voting", "itinerary_approval"} /\ status \in WaitingStatuses)
      /\ status \in {"active", "voting_in_progress"}

_needs_consensus(ad) ==
  LET pt == ad.phase_tracking
      cp == pt.current_phase
      status == pt.phases[cp].status
  IN  /\ pt.present
      /\ cp \in PhaseNames
      /\ ~(cp \in {"activity_voting", "itinerary_approval"} /\ status \in WaitingStatuses)
      /\ status = "active"

\* agent_data.get("phase_tracking", {}) is None when the key holds None, and the
\* .get on it raises AttributeError
ResearchFaults(ad) == ~ad.phase_tracking.present

_needs_destination_research(ad) ==
  LET pt == ad.phase_tracking
  IN  /\ ~(/\ pt.current_phase = "destination_decision"
           /\ pt.phases["destination_decision"].status \in {"active", "voting_in_progress"})
      /\ ad.preferences_summary # None
      /\ Truthy(ad.destination)
      /\ ad.activity_catalog = None

\* the itinerary rule without the test of the activity_voting status
_needs_itinerary_generation_unvoted(ad) ==
  /\ ad.phase_tracking.present
  /\ ad.activity_catalog # None
  /\ ad.trip_duration_days # NoDays
  /\ ad.itinerary = None

_needs_itinerary_generation(ad) ==
  LET pt == ad.phase_tracking
  IN  /\ pt.present
      /\ pt.phases["activity_voting"].status = "completed"
      /\ ad.activity_catalog # None
      /\ ad.trip_duration_days # NoDays
      /\ ad.itinerary = None

\* a waiting test that looks at the current phase only
_is_waiting_current_phase_only(ad) ==
  LET pt == ad.phase_tracking
      cp == pt.current_phase
  IN  /\ pt.present
      /\ cp \in PhaseNames
      /\ LET status == pt.phases[cp].status IN
         \/ cp \in {"destination_decision", "date_selection"}
              /\ status = "voting_in_progress"
         \/ cp \in {"activity_voting", "itinerary_approval"}
              /\ status \in WaitingStatuses

_is_waiting_for_user_action(ad) ==
  LET pt == ad.phase_tracking
      cp == pt.current_phase
  IN  /\ pt.present
      /\ IF cp \in PhaseNames
         THEN LET status == pt.phases[cp].status IN
              \/ cp \in {"destination_decision", "date_selection"}
                   /\ status = "voting_in_progress"
              \/ cp \in {"activity_voting", "itinerary_approval"}
                   /\ status \in WaitingStatuses
         ELSE pt.phases["activity_voting"].status \in WaitingStatuses

\* the first matching deterministic rule, or None
\* the same rules with consensus tried before preference processing
DeterministicSuggestionConsensusFirst(ad) ==
  IF _needs_consensus(ad) THEN "consensus_resolver"
  ELSE IF _needs_preference_processing(ad) THEN "preference_processor"
  ELSE IF _needs_destination_research(ad) THEN "destination_researcher"
  ELSE IF _needs_itinerary_generation(ad) THEN "itinerary_planner"
  ELSE None

DeterministicSuggestion(ad) ==
  IF _needs_preference_processing(ad) THEN "preference_processor"
  ELSE IF _needs_consensus(ad) THEN "consensus_resolver"
  ELSE IF _needs_destination_research(ad) THEN "destination_researcher"
  ELSE IF _needs_itinerary_generation(ad) THEN "itinerary_planner"
  ELSE None

\* a cap test that lets the step equal to MAX_STEPS through
CapReachedLate(steps) == steps > MAX_STEPS

\* the step cap test of supervisor_agent
CapReached(steps) == steps >= MAX_STEPS

Decision(st, next, reason, done) ==
  [st EXCEPT !.steps = st.steps + 1, !.next_task = next, !.reason = reason, !.done = done,
             !.nodes = st.nodes + 1]

\* what the assistive model may answer: a registry key, end, or anything else
LLMAnswers == WORKERS \cup {"end", "something_else"}

\* supervisor_agent: the states it can return.  Without a deterministic
\* suggestion and without a waiting phase the answer is "end" when no llm is
\* configured, and otherwise the validated answer of the llm.
\* the decision with the proposal of the generation model taken as it comes
supervisor_agent_unvalidated(st) ==
  LET ad == st.agent_data
      suggestion == DeterministicSuggestion(ad)
  IN  IF CapReached(st.steps + 1)
      THEN {Decision(st, "end", "max_steps", TRUE)}
      ELSE IF suggestion = None /\ _is_waiting_for_user_action(ad)
      THEN {Decision(st, "end", "waiting", FALSE)}
      ELSE IF suggestion # None
      THEN {Decision(st, suggestion, "deterministic", FALSE)}
      ELSE IF ~llm
      THEN {Decision(st, "end", "no_more_work", TRUE)}
      ELSE {Decision(st, a, "llm", a = "end") : a \in LLMAnswers}

supervisor_agent(st) ==
  LET ad == st.agent_data
      suggestion == DeterministicSuggestion(ad)
  IN  IF CapReached(st.steps + 1)
      THEN {Decision(st, "end", "max_steps", TRUE)}
      ELSE IF suggestion = None /\ _is_waiting_for_user_action(ad)
      THEN {Decision(st, "end", "waiting", FALSE)}
      ELSE IF suggestion # None
      THEN {Decision(st, suggestion, "deterministic", FALSE)}
      ELSE IF ~llm
      THEN {Decision(st, "end", "no_more_work", TRUE)}
      ELSE {Decision(st, IF a \in WORKERS \cup {"end"} THEN a ELSE "end",
                          IF a \in WORKERS \cup {"end"} THEN "llm" ELSE "coerced",
                          (a \notin WORKERS)) : a \in LLMAnswers}

\* the supervisor raises instead of returning: the state snapshot evaluates
\* _needs_destination_research on every step that passes the cap check
SupervisorFaults(st) ==
  ~CapReached(st.steps + 1) /\ ResearchFaults(st.agent_data)

(* --------------------------- the graph loop ---------------------------- *)
IsLoop(t) == t.kind \in LoopKinds

\* the graph has used up its node executions and has not reached END: the
\* next one raises GraphRecursionError
OutOfSteps(st) == st.nodes >= RECURSION_LIMIT

\* where a loop task goes once the graph has returned: run_orchestrator_background
\* goes on to inspect the trip; the other callers just end
AfterLoop(t, st) ==
  IF t.kind = "background" THEN Spawn([t EXCEPT !.pc = "inspect", !.st = st]) ELSE EmptyBag

\* where a loop task goes when the graph raises: run_orchestrator_background
\* catches it; the other callers' tasks die with the exception
AfterFault(t) ==
  IF t.kind = "background" THEN Spawn([t EXCEPT !.pc = "failed"]) ELSE EmptyBag

\* run_orchestrator_background up to the call of run_orchestrator_agent:
\* announce the start, read phase_tracking from the trip
BackgroundInit(t) ==
  /\ t.kind = "background" /\ t.pc = "init"
  /\ published' = published \cup {"starting"}
  /\ tasks' = Replace(t, Spawn([t EXCEPT !.pc = "supervisor",
                                !.st.agent_data.phase_tracking =
                                   IF trip_deleted THEN NonePhaseTracking
                                   ELSE trip.phase_tracking]))
  /\ UNCHANGED <<llm, db_errors, api_errors, prefs, trip, completions, activities, research_cache, itinerary_cache, trip_deleted, activity_docs, votes, selected_activities, api_calls>>

\* trigger_consensus_background: reload the trip, build the initial state
VoteRunInit(t) ==
  /\ t.kind = "vote_run" /\ t.pc = "init"
  /\ tasks' = Replace(t, Spawn([t EXCEPT !.pc = "supervisor",
                  !.st = BaseState(AgentData(trip.destination, trip.trip_duration_days,
                                             trip.phase_tracking, None))]))
  /\ UNCHANGED <<llm, db_errors, api_errors, prefs, trip, published, completions, activities, research_cache, itinerary_cache, trip_deleted, activity_docs, votes, selected_activities, api_calls>>

\* _trigger_orchestrator_for_itinerary: reload the trip and the activities
ItineraryRunInit(t) ==
  /\ t.kind = "itinerary_run" /\ t.pc = "init"
  /\ tasks' = Replace(t, Spawn([t EXCEPT !.pc = "supervisor",
                  !.st = BaseState(AgentData(trip.destination, trip.trip_duration_days,
                                             trip.phase_tracking,
                                             IF activities THEN "full" ELSE "empty"))]))
  /\ UNCHANGED <<llm, db_errors, api_errors, prefs, trip, published, completions, activities, research_cache, itinerary_cache, trip_deleted, activity_docs, votes, selected_activities, api_calls>>

\* one supervisor_agent node execution, then agent_router
Supervisor(t) ==
  /\ IsLoop(t) /\ t.pc = "supervisor"
  /\ ~SupervisorFaults(t.st) /\ ~OutOfSteps(t.st)
  /\ \E st \in supervisor_agent(t.st) :
       tasks' = Replace(t, IF st.next_task = "end" THEN AfterLoop(t, st)
                           ELSE IF OutOfSteps(st) THEN AfterFault(t)
                           ELSE Spawn([t EXCEPT !.pc = st.next_task, !.st = st]))
  /\ UNCHANGED <<llm, db_errors, api_errors, prefs, trip, published, completions, activities, research_cache, itinerary_cache, trip_deleted, activity_docs, votes, selected_activities, api_calls>>

\* supervisor_agent raises: on a None phase_tracking, or when the call of the
\* assistive model fails (max_retries = 0); or the graph raises before the node
\* because the recursion limit is used up
SupervisorRaises(t) ==
  /\ IsLoop(t) /\ t.pc = "supervisor"
  /\ \/ SupervisorFaults(t.st)
     \/ OutOfSteps(t.st)
     \/ /\ llm
        /\ ~CapReached(t.st.steps + 1)
        /\ DeterministicSuggestion(t.st.agent_data) = None
        /\ ~_is_waiting_for_user_action(t.st.agent_data)
  /\ tasks' = Replace(t, AfterFault(t))
  /\ UNCHANGED <<llm, db_errors, api_errors, prefs, trip, published, completions, activities, research_cache, itinerary_cache, trip_deleted, activity_docs, votes, selected_activities, api_calls>>

(* -------------------------- preference worker -------------------------- *)
\* the destination the preference agent suggests when none is set
SuggestedDestination == "suggested"

\* PreferenceAgent._fetch_and_process behind preference_agent_wrapper
PreferenceWorker(t) ==
  /\ IsLoop(t) /\ t.pc = "preference_processor"
  /\ LET ad == t.st.agent_data
         summary == IF prefs = <<>> THEN "empty" ELSE "ok"
         voting == ad.phase_tracking.current_phase = "destination_decision"
         suggest == ~Truthy(ad.destination) /\ ~voting
     IN
     \/ \* the fetch fails or the node raises inside its try: no agent_data returned
        /\ db_errors \/ ~ad.phase_tracking.present
        /\ tasks' = Replace(t, Spawn([t EXCEPT !.pc = "supervisor", !.st.done = TRUE,
                                      !.st.nodes = @ + 1]))
        /\ UNCHANGED trip
     \/ /\ ad.phase_tracking.present
        /\ tasks' = Replace(t, Spawn([t EXCEPT !.pc = "supervisor", !.st.done = TRUE,
                       !.st.nodes = @ + 1,
                       !.st.agent_data = DictUpdate(ad,
                          IF Truthy(ad.destination)
                          THEN [preferences_summary |-> summary]
                          ELSE [preferences_summary |-> summary,
                                destination |-> IF suggest THEN SuggestedDestination
                                                ELSE None])]))
        /\ trip' = IF suggest /\ ~trip_deleted
                   THEN [trip EXCEPT !.destination = SuggestedDestination]
                   ELSE trip
  /\ UNCHANGED <<llm, db_errors, api_errors, prefs, published, completions, activities, research_cache, itinerary_cache, trip_deleted, activity_docs, votes, selected_activities, api_calls>>

(* -------------------------- itinerary worker --------------------------- *)
\* ItineraryOut(...).dict(): the keys the itinerary agent writes
ItineraryOut(itinerary, warnings) == [itinerary |-> itinerary, warnings |-> warnings]

\* ItineraryAgent._build_itinerary behind itinerary_agent_wrapper
ItineraryWorker(t) ==
  /\ IsLoop(t) /\ t.pc = "itinerary_planner"
  /\ LET ad == t.st.agent_data
         inputsOk == /\ ad.preferences_summary # None
                     /\ Truthy(ad.destination)
                     /\ ad.activity_catalog = "full"
         finish(out, attempts) ==
           /\ tasks' = Replace(t, Spawn([t EXCEPT !.pc = "supervisor",
                                         !.st.nodes = @ + 1,
                                         !.st.agent_data = DictUpdate(ad, out)]))
           /\ api_calls' = [api_calls EXCEPT !["itinerary_planner"] = attempts]
     IN
     \/ \* "Itinerary already exists": the state goes back as it came
        /\ ad.itinerary = "full"
        /\ finish(NoUpdate, NotCalled)
        /\ UNCHANGED itinerary_cache
     \/ \* an input is missing or invalid, or no llm: the fallback payload
        /\ ad.itinerary # "full"
        /\ finish(ItineraryOut("empty", "unavailable"), NotCalled)
        /\ UNCHANGED itinerary_cache
     \/ \* the retry loop around the call of the llm
        /\ ad.itinerary # "full"
        /\ inputsOk /\ ad.preferences_summary = "ok"
        /\ \E failures \in ApiFailures(ITINERARY_MAX_RETRIES) :
             LET attempts == RetryLoop(ITINERARY_MAX_RETRIES, failures)
             IN  IF attempts.failed = attempts.calls
                 THEN /\ finish(ItineraryOut("empty", "unavailable"), attempts)
                      /\ UNCHANGED itinerary_cache
                 ELSE /\ finish(ItineraryOut("full", "result"), attempts)
                      /\ itinerary_cache' = TRUE
  /\ UNCHANGED <<llm, db_errors, api_errors, prefs, trip, published, completions, activities, research_cache, trip_deleted, activity_docs, votes, selected_activities>>

(* --------------------- destination research worker --------------------- *)
\* a dict rebuilt with phase_tracking.get("current_phase"): an absent key reads None
GetCurrentPhase(pt) ==
  [pt EXCEPT !.current_phase = IF @ = Missing THEN None ELSE @]

\* "Activate activity_voting phase after generating activities"
ActivateVoting(pt) ==
  [pt EXCEPT !.current_phase = "activity_voting",
             !.phases["activity_voting"].status = "active"]

\* ActivityCatalogOut(...).dict(): the keys the research agent writes
CatalogOut(catalog, warnings) == [activity_catalog |-> catalog, warnings |-> warnings]

\* DestinationResearchAgent._build_catalog behind its wrapper, which also
\* saves a non-empty catalog to the activities collection
DestinationWorker(t) ==
  /\ IsLoop(t) /\ t.pc = "destination_researcher"
  /\ LET ad == t.st.agent_data
         dest == ad.destination
         usable == Truthy(dest) /\ ad.preferences_summary = "ok"
         \* the wrapper: save a non-empty catalog, and give agent_data the
         \* trip's phase_tracking when it holds none
         wrapped(agent_out) ==
           IF agent_out.activity_catalog = "full" /\ ~agent_out.phase_tracking.present
              /\ ~trip_deleted
           THEN DictUpdate(agent_out,
                           [phase_tracking |-> GetCurrentPhase(trip.phase_tracking)])
           ELSE agent_out
         finish(out, attempts) ==
           LET agent_out == DictUpdate(ad, out)
           IN  /\ tasks' = Replace(t, Spawn([t EXCEPT !.pc = "supervisor",
                                             !.st.nodes = @ + 1,
                                             !.st.agent_data = wrapped(agent_out)]))
               /\ activities' = (activities \/ agent_out.activity_catalog = "full")
               /\ activity_docs' = PersistCatalog(agent_out.activity_catalog, activity_docs)
               /\ api_calls' = [api_calls EXCEPT !["destination_researcher"] = attempts]
     IN
     \/ \* short circuit: a catalog is already there
        /\ ad.activity_catalog = "full"
        /\ finish(NoUpdate, NotCalled)
        /\ UNCHANGED <<trip, published, research_cache>>
     \/ \* no destination, no members, or no llm: the fallback payload
        /\ ad.activity_catalog # "full"
        /\ ~(usable /\ dest \in research_cache)
        /\ finish(CatalogOut("empty", "unavailable"), NotCalled)
        /\ published' = published \cup {"research_starting"}
        /\ UNCHANGED <<trip, research_cache>>
     \/ \* cached result of an earlier run
        /\ ad.activity_catalog # "full"
        /\ usable /\ dest \in research_cache
        /\ finish(CatalogOut("full", "result"), NotCalled)
        /\ published' = published \cup {"research_starting", "research_completed"}
        /\ UNCHANGED <<trip, research_cache>>
     \/ \* the retry loop around the call of the llm: every attempt failed
        /\ ad.activity_catalog # "full"
        /\ usable /\ dest \notin research_cache
        /\ \E failures \in ApiFailures(DESTINATION_MAX_RETRIES) :
             LET attempts == RetryLoop(DESTINATION_MAX_RETRIES, failures)
             IN  /\ attempts.failed = attempts.calls
                 /\ finish(CatalogOut("empty", "unavailable"), attempts)
        /\ published' = published \cup {"research_starting"}
        /\ UNCHANGED <<trip, research_cache>>
     \/ \* the retry loop around the call of the llm: the llm answered
        /\ ad.activity_catalog # "full"
        /\ usable /\ dest \notin research_cache
        /\ research_cache' = research_cache \cup {dest}
        /\ \E catalog \in {"full", "empty"}, failures \in ApiFailures(DESTINATION_MAX_RETRIES) :
             LET attempts == RetryLoop(DESTINATION_MAX_RETRIES, failures)
             IN  /\ attempts.failed < attempts.calls
                 /\ IF ad.phase_tracking.present
                    THEN /\ finish([activity_catalog |-> catalog, warnings |-> "result",
                                    phase_tracking |-> ActivateVoting(ad.phase_tracking)],
                                   attempts)
                         /\ trip' = IF trip_deleted THEN trip
                                    ELSE [trip EXCEPT !.phase_tracking =
                                                         ActivateVoting(ad.phase_tracking)]
                         /\ published' = published \cup
                              ({"research_starting", "phase_ready_update"}
                               \cup IF catalog = "full" THEN {"research_completed"} ELSE {})
                    ELSE /\ finish(CatalogOut(catalog, "result"), attempts)
                         /\ published' = published \cup
                              ({"research_starting"}
                               \cup IF catalog = "full" THEN {"research_completed"} ELSE {})
                         /\ UNCHANGED trip
  /\ UNCHANGED <<llm, db_errors, api_errors, prefs, completions, itinerary_cache, trip_deleted, votes, selected_activities>>

(* --------------------------- consensus agent --------------------------- *)
\* what a coroutine keeps of a trip document it read: phase_tracking
PhaseSnap(doc) == [NewTrip EXCEPT !.phase_tracking = doc.phase_tracking]

\* state["agent_data"] = {} of the run started by mark_user_ready
EmptyAgentData == AgentData(None, NoDays, NonePhaseTracking, None)

IsConsensus(t) ==
  \/ IsLoop(t) /\ t.pc = "consensus_resolver"
  \/ t.kind = "consensus" /\ t.pc = "init"

\* _make_phase_decision up to find_one; "Trip not found" returns done = True
\* and leaves agent_data as it was, and the reload of consensus_agent_wrapper
\* finds no trip either
ConsensusRead(t) ==
  /\ IsConsensus(t)
  /\ tasks' = Replace(t,
        IF trip_deleted
        THEN IF t.kind = "consensus" THEN EmptyBag
             ELSE Spawn([t EXCEPT !.pc = "supervisor", !.st.done = TRUE,
                                  !.st.nodes = @ + 1])
        ELSE Spawn([t EXCEPT !.pc = "consensus_decide", !.snap = PhaseSnap(trip)]))
  /\ UNCHANGED <<llm, db_errors, api_errors, prefs, trip, published, completions, activities, research_cache, itinerary_cache, trip_deleted, activity_docs, votes, selected_activities, api_calls>>

\* the node returns: a bare ConsensusAgent run ends; consensus_agent_wrapper
\* reloads phase_tracking unless agent_data holds None for it
ConsensusReturn(t, ad, spawned) ==
  tasks' = Replace(t, spawned (+)
             (IF t.kind = "consensus" THEN EmptyBag
              ELSE Spawn([t EXCEPT !.pc = IF ad.phase_tracking.present
                                          THEN "consensus_reload" ELSE "supervisor",
                                   !.snap = NoSnap,
                                   !.st.done = TRUE,
                                   !.st.nodes = @ + 1,
                                   !.st.agent_data = ad])))

\* vote_counts = {opt["value"]: len(opt.get("voters", []))}
TotalVotes(options) ==
  LET RECURSIVE Sum(_)
      Sum(i) == IF i = 0 THEN 0 ELSE Len(options[i].voters) + Sum(i - 1)
  IN  Sum(Len(options))

AllVoters(options) == UNION {Range(options[i].voters) : i \in 1..Len(options)}

\* a choice among every option of the poll, whatever its count
AnyOption(options) == {options[i].value : i \in 1..Len(options)}

\* the option values holding max(vote_counts.values())
Winners(options) ==
  {options[i].value : i \in {k \in 1..Len(options) :
       \A j \in 1..Len(options) : Len(options[j].voters) <= Len(options[k].voters)}}

\* a decision that marks the phase completed and leaves current_phase alone
MarkCompletedOnly(pt, phase, next) ==
  [pt EXCEPT !.phases[phase].status = "completed"]

\* the statuses and the current phase a decision writes, applied to a
\* phase_tracking value (the document's, or the copy held in agent_data)
MarkCompleted(pt, phase, next) ==
  [pt EXCEPT !.phases[phase].status = "completed",
             !.current_phase = next,
             !.phases["date_selection"].status = IF next = "date_selection" THEN "active" ELSE @]

Bump(phase) == [completions EXCEPT ![phase] = @ + 1]

\* the phase _make_phase_decision dispatches on
DispatchPhase(doc) ==
  IF doc.phase_tracking.current_phase = Missing THEN "activity_voting"
  ELSE doc.phase_tracking.current_phase

Deciding(t, phase) ==
  /\ t.kind \in LoopKinds \cup {"consensus"}
  /\ t.pc = "consensus_decide"
  /\ DispatchPhase(t.snap) = phase

\* "Max 7 per category for balance", "Select top 35"
MAX_PER_CATEGORY == 7
MAX_SELECTED == 35

\* the score without "Strong downvotes (heavy penalty)"
FinalScoreUnpenalised(a) == a.net_score * 10 + a.score * 5

\* final_score: net votes times 10, the catalog score times 50 (score is in
\* tenths here), 30 off when two or more members voted the activity down
FinalScore(a) ==
  a.net_score * 10 + a.score * 5 - (IF a.downvote_count >= 2 THEN 30 ELSE 0)

\* one step of the stable sort: a goes behind every document that scores at
\* least as much
RECURSIVE InsertByScore(_, _)
InsertByScore(sorted, a) ==
  IF sorted = <<>> THEN <<a>>
  ELSE IF FinalScore(Head(sorted)) >= FinalScore(a)
       THEN <<Head(sorted)>> \o InsertByScore(Tail(sorted), a)
       ELSE <<a>> \o sorted

\* scored_activities.sort(key = final_score, reverse = True) over the first n
\* documents
RECURSIVE SortByScore(_, _)
SortByScore(docs, n) ==
  IF n = 0 THEN <<>> ELSE InsertByScore(SortByScore(docs, n - 1), docs[n])

\* category_counts.get(category, 0)
CategoryCount(selected, category) ==
  Cardinality({k \in 1..Len(selected) : selected[k].category = category})

\* the entry agent_data["selected_activities"] keeps of a selected document
SelectedEntry(a) ==
  [name |-> a.name, category |-> a.category, score |-> FinalScore(a),
   net_score |-> a.net_score]

\* the selection loop over scored_activities from position i on
RECURSIVE SelectFrom(_, _, _)
SelectFrom(scored, i, selected) ==
  IF i > Len(scored) THEN selected
  ELSE LET activity == scored[i]
       IN  IF CategoryCount(selected, activity.category) >= MAX_PER_CATEGORY
           THEN SelectFrom(scored, i + 1, selected)
           ELSE IF activity.net_score < 1
           THEN SelectFrom(scored, i + 1, selected)
           ELSE IF Len(selected) + 1 >= MAX_SELECTED
           THEN Append(selected, SelectedEntry(activity))
           ELSE SelectFrom(scored, i + 1, Append(selected, SelectedEntry(activity)))

\* score, sort and select: what _decide_activities keeps of the collection
SelectActivities(docs) == SelectFrom(SortByScore(docs, Len(docs)), 1, <<>>)

\* _decide_activities, from the document read to the return
_decide_activities(t) ==
  /\ Deciding(t, "activity_voting")
  /\ LET phases == t.snap.phase_tracking.phases
         ad == t.st.agent_data
     IN  IF Len(phases["activity_voting"].users_ready) < NumMembers \/ ~activities
         THEN /\ ConsensusReturn(t, ad, EmptyBag)
              /\ UNCHANGED <<trip, published, completions, selected_activities>>
         ELSE /\ selected_activities' = SelectActivities(activity_docs)
              /\ trip' = [trip EXCEPT
                   !.phase_tracking.phases =
                      [phases EXCEPT !["activity_voting"].status = "completed"],
                   !.phase_tracking.current_phase = None]
              /\ completions' = Bump("activity_voting")
              /\ published' = published \cup {"decision"}
              /\ ConsensusReturn(t, ad, Spawn(Background("itinerary_run", "init", NoState)))
  /\ UNCHANGED <<llm, db_errors, api_errors, prefs, activities, research_cache, itinerary_cache, trip_deleted, activity_docs, votes, api_calls>>

\* the tail of _decide_destination: record the destination, complete the
\* phase, move to date_selection when its options are waiting
ResolveDestination(t, selected_dest) ==
  LET phases == t.snap.phase_tracking.phases
      needs_date_consensus == /\ phases["date_selection"].status = "pending"
                              /\ phases["date_selection"].date_options # <<>>
  IN  /\ trip' = [trip EXCEPT
            !.destination = selected_dest,
            !.phase_tracking = MarkCompleted(@, "destination_decision",
                                 IF needs_date_consensus THEN "date_selection" ELSE Missing)]
      /\ completions' = Bump("destination_decision")
      /\ published' = published \cup {"decision"}
      /\ ConsensusReturn(t,
           [t.st.agent_data EXCEPT
              !.destination = selected_dest,
              !.phase_tracking = MarkCompleted(t.snap.phase_tracking, "destination_decision",
                                   IF needs_date_consensus THEN "date_selection" ELSE None)],
           EmptyBag)

\* _decide_destination
_decide_destination(t) ==
  /\ Deciding(t, "destination_decision")
  /\ LET phase_data == t.snap.phase_tracking.phases["destination_decision"]
         existing_options == phase_data.options
         dests == AllDestinations(prefs)
         tied == TopOfCounter(dests)
         waiting == /\ ConsensusReturn(t, t.st.agent_data, EmptyBag)
                    /\ UNCHANGED <<trip, published, completions>>
     IN  IF dests = <<>> THEN waiting
         ELSE IF Len(tied) = 1 THEN ResolveDestination(t, tied[1])
         ELSE IF existing_options = <<>>
         THEN /\ trip' = [trip EXCEPT
                   !.phase_tracking.phases["destination_decision"].options =
                      [i \in 1..Len(tied) |-> VoteOption(DestVal(tied[i]))],
                   !.phase_tracking.phases["destination_decision"].status =
                      "voting_in_progress"]
              /\ published' = published \cup {"voting"}
              /\ ConsensusReturn(t, t.st.agent_data, EmptyBag)
              /\ UNCHANGED completions
         ELSE IF TotalVotes(existing_options) = 0
         THEN /\ trip' = IF phase_data.status # "voting_in_progress"
                         THEN [trip EXCEPT
                                 !.phase_tracking.phases["destination_decision"].status =
                                    "voting_in_progress"]
                         ELSE trip
              /\ ConsensusReturn(t, t.st.agent_data, EmptyBag)
              /\ UNCHANGED <<published, completions>>
         ELSE IF Cardinality(AllVoters(existing_options)) < NumMembers THEN waiting
         ELSE \E w \in Winners(existing_options) : ResolveDestination(t, w.dest)
  /\ UNCHANGED <<llm, db_errors, api_errors, prefs, activities, research_cache, itinerary_cache, trip_deleted, activity_docs, votes, selected_activities, api_calls>>

\* _decide_dates
_decide_dates(t) ==
  /\ Deciding(t, "date_selection")
  /\ LET pt == t.snap.phase_tracking
         phase_data == pt.phases["date_selection"]
         date_options == phase_data.date_options
         existing_options == phase_data.options
         ad == t.st.agent_data
         waiting == /\ ConsensusReturn(t, ad, EmptyBag)
                    /\ UNCHANGED <<trip, published, completions>>
     IN  IF date_options = <<>> THEN waiting
         ELSE IF existing_options = <<>>
         THEN /\ trip' = [trip EXCEPT
                   !.phase_tracking.phases["date_selection"].options =
                      [i \in 1..Len(date_options) |-> VoteOption(date_options[i])],
                   !.phase_tracking.phases["date_selection"].status = "voting_in_progress"]
              /\ published' = published \cup {"voting"}
              /\ ConsensusReturn(t,
                   [ad EXCEPT !.phase_tracking =
                      [GetCurrentPhase(pt) EXCEPT !.current_phase = "date_selection"]],
                   EmptyBag)
              /\ UNCHANGED completions
         ELSE IF TotalVotes(existing_options) = 0
         THEN /\ trip' = IF phase_data.status # "voting_in_progress"
                         THEN [trip EXCEPT
                                 !.phase_tracking.phases["date_selection"].status =
                                    "voting_in_progress"]
                         ELSE trip
              /\ ConsensusReturn(t, ad, EmptyBag)
              /\ UNCHANGED <<published, completions>>
         ELSE IF Cardinality(AllVoters(existing_options)) < NumMembers THEN waiting
         ELSE \E selected_dates \in Winners(existing_options) :
              /\ trip' = [trip EXCEPT
                   !.selected_dates = selected_dates,
                   !.trip_duration_days = DurationOf(selected_dates),
                   !.phase_tracking = MarkCompleted(@, "date_selection", Missing)]
              /\ completions' = Bump("date_selection")
              /\ published' = published \cup {"decision"}
              /\ ConsensusReturn(t,
                   [ad EXCEPT !.trip_duration_days = DurationOf(selected_dates),
                              !.phase_tracking = NonePhaseTracking],
                   EmptyBag)
  /\ UNCHANGED <<llm, db_errors, api_errors, prefs, activities, research_cache, itinerary_cache, trip_deleted, activity_docs, votes, selected_activities, api_calls>>

\* _finalize_itinerary when current_phase is itinerary_approval, and the
\* "Unknown phase" return for any other value (None included)
_finalize_itinerary(t) ==
  /\ t.kind \in LoopKinds \cup {"consensus"}
  /\ t.pc = "consensus_decide"
  /\ DispatchPhase(t.snap) \notin {"activity_voting", "destination_decision", "date_selection"}
  /\ LET phases == t.snap.phase_tracking.phases
         approved == /\ DispatchPhase(t.snap) = "itinerary_approval"
                     /\ Len(phases["itinerary_approval"].users_ready) >= NumMembers
     IN  /\ trip' = IF approved
                    THEN [trip EXCEPT
                            !.phase_tracking.phases["itinerary_approval"] =
                               [phases["itinerary_approval"] EXCEPT !.status = "completed"],
                            !.phase_tracking.current_phase = None]
                    ELSE trip
         /\ completions' = IF approved THEN Bump("itinerary_approval") ELSE completions
         /\ published' = IF approved THEN published \cup {"decision"} ELSE published
         /\ ConsensusReturn(t, t.st.agent_data, EmptyBag)
  /\ UNCHANGED <<llm, db_errors, api_errors, prefs, activities, research_cache, itinerary_cache, trip_deleted, activity_docs, votes, selected_activities, api_calls>>

\* consensus_agent_wrapper: reload phase_tracking from the trip
ConsensusReload(t) ==
  /\ IsLoop(t) /\ t.pc = "consensus_reload"
  /\ tasks' = Replace(t, Spawn([t EXCEPT !.pc = "supervisor",
                                !.st.agent_data.phase_tracking =
                                   IF trip_deleted THEN @ ELSE trip.phase_tracking]))
  /\ UNCHANGED <<llm, db_errors, api_errors, prefs, trip, published, completions, activities, research_cache, itinerary_cache, trip_deleted, activity_docs, votes, selected_activities, api_calls>>

(* ------------------ run_orchestrator_background: the end ---------------- *)
\* "Inspect current phase to determine pause vs completion"
PausedOrCompleted(doc) ==
  LET pt == doc.phase_tracking
      cp == pt.current_phase
  IN  IF cp \in PhaseNames
      THEN IF pt.phases[cp].status \in WaitingStatuses THEN "paused" ELSE "completed"
      ELSE IF pt.phases["activity_voting"].status \in WaitingStatuses
           THEN "paused" ELSE "completed"

\* the graph returned: persist the catalog, read the trip, announce the outcome
Inspect(t) ==
  /\ t.kind = "background" /\ t.pc = "inspect"
  /\ activities' = (activities \/ t.st.agent_data.activity_catalog = "full")
  /\ activity_docs' = PersistCatalog(t.st.agent_data.activity_catalog, activity_docs)
  /\ LET outcome == IF trip_deleted THEN "completed" ELSE PausedOrCompleted(trip)
     IN  /\ published' = published \cup {outcome}
         /\ tasks' = Replace(t, Spawn([t EXCEPT !.pc = "finish", !.resp = outcome]))
  /\ UNCHANGED <<llm, db_errors, api_errors, prefs, trip, completions, research_cache, itinerary_cache, trip_deleted, votes, selected_activities, api_calls>>

\* update_one(orchestrator_status = paused | completed)
Finish(t) ==
  /\ t.kind = "background" /\ t.pc = "finish"
  /\ trip' = IF trip_deleted THEN trip ELSE [trip EXCEPT !.orchestrator_status = t.resp]
  /\ tasks' = Replace(t, EmptyBag)
  /\ UNCHANGED <<llm, db_errors, api_errors, prefs, published, completions, activities, research_cache, itinerary_cache, trip_deleted, activity_docs, votes, selected_activities, api_calls>>

\* delete_trip by the creator: the trip document goes, and with it the
\* preferences and the activities of the trip
delete_trip ==
  /\ ~trip_deleted
  /\ trip_deleted' = TRUE
  /\ prefs' = <<>>
  /\ activities' = FALSE
  /\ activity_docs' = <<>>
  /\ UNCHANGED <<llm, db_errors, api_errors, trip, tasks, published, completions, research_cache, itinerary_cache, votes, selected_activities, api_calls>>

\* the except branch: orchestrator_status = error, then the error message
Failed(t) ==
  /\ t.kind = "background" /\ t.pc = "failed"
  /\ trip' = IF trip_deleted THEN trip ELSE [trip EXCEPT !.orchestrator_status = "error"]
  /\ published' = published \cup {"error"}
  /\ tasks' = Replace(t, EmptyBag)
  /\ UNCHANGED <<llm, db_errors, api_errors, prefs, completions, activities, research_cache, itinerary_cache, trip_deleted, activity_docs, votes, selected_activities, api_calls>>

(* ----------------------- generate_itinerary_now ------------------------ *)
generate_itinerary_now ==
  /\ tasks' = tasks (+) Spawn(Done("generate", 0, "", "started"))
                    (+) Spawn(Background("background", "init",
                          BaseState(AgentData(trip.destination,
                             IF trip.trip_duration_days = NoDays
                             THEN GENERATE_DEFAULT_DURATION ELSE trip.trip_duration_days,
                             NonePhaseTracking,
                             IF activities THEN "full" ELSE None))))
  /\ UNCHANGED <<llm, db_errors, api_errors, prefs, trip, published, completions, activities, research_cache, itinerary_cache, trip_deleted, activity_docs, votes, selected_activities, api_calls>>

(* ----------------------------- submit_vote ----------------------------- *)
\* a vote that moves the voter without recounting the option left behind
CastVoteStale(options, user, selected) ==
  [i \in 1..Len(options) |->
     LET opt == options[i]
         cleared == [opt EXCEPT !.voters = RemoveFirst(@, user)]
     IN  IF opt.value \in selected /\ ~InSeq(user, cleared.voters)
         THEN [cleared EXCEPT !.voters = Append(@, user),
                              !.votes = Len(cleared.voters) + 1]
         ELSE cleared]

\* "Remove user from all options first", then "Add user to all their selected
\* options"; votes is recomputed only where the voters list changed
CastVote(options, user, selected) ==
  [i \in 1..Len(options) |->
     LET opt == options[i]
         cleared == IF InSeq(user, opt.voters)
                    THEN [opt EXCEPT !.voters = RemoveFirst(@, user),
                                     !.votes = Len(RemoveFirst(opt.voters, user))]
                    ELSE opt
     IN  IF opt.value \in selected /\ ~InSeq(user, cleared.voters)
         THEN [cleared EXCEPT !.voters = Append(@, user),
                              !.votes = Len(cleared.voters) + 1]
         ELSE cleared]

\* an append that does not look for the member first
AddReadyAgain(users_ready, user) == Append(users_ready, user)

\* users_ready.append(user_id) unless already there
AddReady(users_ready, user) ==
  IF InSeq(user, users_ready) THEN users_ready ELSE Append(users_ready, user)

OptionValues(options) == {options[i].value : i \in 1..Len(options)}

\* find_one, validation, and the new options and users_ready computed on the
\* document read
VoteRead(user, phase) ==
  /\ LET phase_data == trip.phase_tracking.phases[phase] IN
       /\ phase_data.options # <<>>
       /\ \E selected \in (SUBSET OptionValues(phase_data.options)) \ {{}} :
            tasks' = tasks (+) Spawn(Task("vote", "write", user, phase, selected,
                        [NewTrip EXCEPT !.phase_tracking.phases[phase] =
                           [phase_data EXCEPT
                              !.options = CastVote(phase_data.options, user, selected),
                              !.users_ready = AddReady(phase_data.users_ready, user)]],
                        NoState, ""))
  /\ UNCHANGED <<llm, db_errors, api_errors, prefs, trip, published, completions, activities, research_cache, itinerary_cache, trip_deleted, activity_docs, votes, selected_activities, api_calls>>

\* update_one of the phase's options and users_ready, the vote_update
\* broadcast, and the all-voted check on the handler's own copy
VoteWrite(t) ==
  /\ t.kind = "vote" /\ t.pc = "write"
  /\ LET phase_data == t.snap.phase_tracking.phases[t.phase]
         all_voted == Cardinality(AllVoters(phase_data.options)) >= NumMembers
     IN  /\ trip' = [trip EXCEPT
                       !.phase_tracking.phases[t.phase].options = phase_data.options,
                       !.phase_tracking.phases[t.phase].users_ready = phase_data.users_ready]
         /\ tasks' = Replace(t, Spawn(
                       IF all_voted /\ phase_data.status # "active"
                       THEN [t EXCEPT !.pc = "activate", !.snap = NoSnap]
                       ELSE Done("vote", 0, "", "recorded")))
  /\ published' = published \cup {"vote_update"}
  /\ UNCHANGED <<llm, db_errors, api_errors, prefs, completions, activities, research_cache, itinerary_cache, trip_deleted, activity_docs, votes, selected_activities, api_calls>>

\* "Update phase status to active so consensus agent will process it", then
\* create_task(trigger_consensus_background())
VoteActivate(t) ==
  /\ t.kind = "vote" /\ t.pc = "activate"
  /\ trip' = [trip EXCEPT !.phase_tracking.phases[t.phase].status = "active"]
  /\ tasks' = Replace(t, Spawn(Done("vote", 0, "", "recorded"))
                         (+) Spawn(Background("vote_run", "init", NoState)))
  /\ UNCHANGED <<llm, db_errors, api_errors, prefs, published, completions, activities, research_cache, itinerary_cache, trip_deleted, activity_docs, votes, selected_activities, api_calls>>

(* ------------------ mark_user_ready / unmark_user_ready ---------------- *)
\* find_one and the users_ready list changed on the document read
ReadyRead(kind, user, phase) ==
  /\ tasks' = tasks (+) Spawn(Task(kind, "write", user, phase, {},
                   [NewTrip EXCEPT !.phase_tracking =
                      [trip.phase_tracking EXCEPT !.phases[phase].users_ready =
                         IF kind = "mark_ready" THEN AddReady(@, user)
                         ELSE RemoveFirst(@, user)]],
                   NoState, ""))
  /\ UNCHANGED <<llm, db_errors, api_errors, prefs, trip, published, completions, activities, research_cache, itinerary_cache, trip_deleted, activity_docs, votes, selected_activities, api_calls>>

mark_user_ready_read(user, phase) == ReadyRead("mark_ready", user, phase)
unmark_user_ready_read(user, phase) == ReadyRead("unmark_ready", user, phase)

\* update_one(phase_tracking = the handler's copy), the phase_ready_update
\* broadcast; mark_user_ready then starts a ConsensusAgent run when all are ready
ReadyWrite(t) ==
  /\ t.kind \in {"mark_ready", "unmark_ready"} /\ t.pc = "write"
  /\ trip' = [trip EXCEPT !.phase_tracking = t.snap.phase_tracking]
  /\ published' = published \cup {"phase_ready_update"}
  /\ LET all_ready == Len(t.snap.phase_tracking.phases[t.phase].users_ready) >= NumMembers IN
       tasks' = Replace(t, Spawn(Done(t.kind, 0, "", "ok")) (+)
                  (IF t.kind = "mark_ready" /\ all_ready
                   THEN Spawn(Task("consensus", "init", 0, "", {}, NoSnap,
                                   BaseState(EmptyAgentData), ""))
                   ELSE EmptyBag))
  /\ UNCHANGED <<llm, db_errors, api_errors, prefs, completions, activities, research_cache, itinerary_cache, trip_deleted, activity_docs, votes, selected_activities, api_calls>>

(* ------------------------------- Next ---------------------------------- *)
MaxRequests == 4       \* HTTP requests issued over one behaviour

\* the phases decided by a poll
PollPhases == {"destination_decision", "date_selection"}

\* the phases the readiness buttons name
ReadyPhases == {"destination_decision", "activity_voting"}

\* every task has returned
Quiet == \A t \in TaskSet : t.pc = "done"

\* Any request at any time.
Next ==
  \/ Accepting(MaxRequests) /\ TriggerRead
  \/ Accepting(MaxRequests) /\ generate_itinerary_now
  \/ Accepting(MaxRequests) /\ \E user \in Members, phase \in PhaseNames : VoteRead(user, phase)
  \/ Accepting(MaxRequests) /\ \E user \in Members, phase \in ReadyPhases :
                                  mark_user_ready_read(user, phase)
  \/ Accepting(MaxRequests) /\ \E user \in Members, phase \in ReadyPhases :
                                  unmark_user_ready_read(user, phase)
  \/ \E t \in TaskSet : TriggerSetRunning(t)
  \/ \E t \in TaskSet : TriggerPlan(t)
  \/ \E t \in TaskSet : VoteWrite(t)
  \/ \E t \in TaskSet : VoteActivate(t)
  \/ \E t \in TaskSet : ReadyWrite(t)
  \/ \E t \in TaskSet : BackgroundInit(t)
  \/ \E t \in TaskSet : VoteRunInit(t)
  \/ \E t \in TaskSet : ItineraryRunInit(t)
  \/ \E t \in TaskSet : Supervisor(t)
  \/ \E t \in TaskSet : SupervisorRaises(t)
  \/ \E t \in TaskSet : PreferenceWorker(t)
  \/ \E t \in TaskSet : DestinationWorker(t)
  \/ \E t \in TaskSet : ItineraryWorker(t)
  \/ \E t \in TaskSet : ConsensusRead(t)
  \/ \E t \in TaskSet : _decide_activities(t)
  \/ \E t \in TaskSet : _decide_destination(t)
  \/ \E t \in TaskSet : _decide_dates(t)
  \/ \E t \in TaskSet : _finalize_itinerary(t)
  \/ \E t \in TaskSet : ConsensusReload(t)
  \/ \E t \in TaskSet : Inspect(t)
  \/ \E t \in TaskSet : Finish(t)
  \/ \E t \in TaskSet : Failed(t)

Spec == Init /\ [][Next]_vars

(* --------------------- planning and itinerary runs --------------------- *)
\* Planning is triggered and an itinerary is requested, one request after the
\* other has been served and its run has ended; the llm and the preference
\* store behave in every way.
MaxRunRequests == 2

NextRuns ==
  \/ Accepting(MaxRunRequests) /\ Quiet /\ TriggerRead
  \/ Accepting(MaxRunRequests) /\ Quiet /\ generate_itinerary_now
  \/ \E t \in TaskSet : TriggerSetRunning(t)
  \/ \E t \in TaskSet : TriggerPlan(t)
  \/ \E t \in TaskSet : BackgroundInit(t)
  \/ \E t \in TaskSet : Supervisor(t)
  \/ \E t \in TaskSet : SupervisorRaises(t)
  \/ \E t \in TaskSet : PreferenceWorker(t)
  \/ \E t \in TaskSet : DestinationWorker(t)
  \/ \E t \in TaskSet : ItineraryWorker(t)
  \/ \E t \in TaskSet : ConsensusRead(t)
  \/ \E t \in TaskSet : _decide_destination(t)
  \/ \E t \in TaskSet : _decide_dates(t)
  \/ \E t \in TaskSet : ConsensusReload(t)
  \/ \E t \in TaskSet : Inspect(t)
  \/ \E t \in TaskSet : Finish(t)
  \/ \E t \in TaskSet : Failed(t)

SpecRuns == Init /\ [][NextRuns]_vars

\* The steps of the tasks the event loop has scheduled: a task that can take
\* a step is resumed sooner or later (asyncio runs every ready task).
RunSteps ==
  \/ \E t \in TaskSet : TriggerSetRunning(t)
  \/ \E t \in TaskSet : TriggerPlan(t)
  \/ \E t \in TaskSet : BackgroundInit(t)
  \/ \E t \in TaskSet : Supervisor(t)
  \/ \E t \in TaskSet : SupervisorRaises(t)
  \/ \E t \in TaskSet : PreferenceWorker(t)
  \/ \E t \in TaskSet : DestinationWorker(t)
  \/ \E t \in TaskSet : ItineraryWorker(t)
  \/ \E t \in TaskSet : ConsensusRead(t)
  \/ \E t \in TaskSet : _decide_destination(t)
  \/ \E t \in TaskSet : _decide_dates(t)
  \/ \E t \in TaskSet : ConsensusReload(t)
  \/ \E t \in TaskSet : Inspect(t)
  \/ \E t \in TaskSet : Finish(t)
  \/ \E t \in TaskSet : Failed(t)

SpecRunsFair == SpecRuns /\ WF_vars(RunSteps)

(* ------------------------- concurrent requests ------------------------- *)
\* No llm is configured and the preference store answers.
InitQuiet == Init /\ ~llm /\ ~db_errors /\ ~api_errors

\* Trigger and generate requests at any time, served concurrently.
MaxRaceRequests == 2

NextRace ==
  \/ Accepting(MaxRaceRequests) /\ TriggerRead
  \/ Accepting(MaxRaceRequests) /\ generate_itinerary_now
  \/ \E t \in TaskSet : TriggerSetRunning(t)
  \/ \E t \in TaskSet : TriggerPlan(t)
  \/ \E t \in TaskSet : BackgroundInit(t)
  \/ \E t \in TaskSet : Supervisor(t)
  \/ \E t \in TaskSet : PreferenceWorker(t)
  \/ \E t \in TaskSet : DestinationWorker(t)
  \/ \E t \in TaskSet : ConsensusRead(t)
  \/ \E t \in TaskSet : _decide_destination(t)
  \/ \E t \in TaskSet : _decide_dates(t)
  \/ \E t \in TaskSet : ConsensusReload(t)
  \/ \E t \in TaskSet : Inspect(t)
  \/ \E t \in TaskSet : Finish(t)

SpecRace == InitQuiet /\ [][NextRace]_vars

(* ------------------------------- voting -------------------------------- *)
\* The members disagree on the destination or the dates; planning is triggered
\* once and the members vote, concurrently.
InitVotes ==
  /\ InitQuiet
  /\ LET agg == Aggregate(prefs, None)
     IN  ~agg.no_compatible_dates /\ (agg.has_destination_conflict \/ agg.has_date_conflict)

MaxVoteRequests == 3

NextVotes ==
  \/ NumRequests = 0 /\ TriggerRead
  \/ Accepting(MaxVoteRequests) /\ \E user \in Members, phase \in PhaseNames : VoteRead(user, phase)
  \/ \E t \in TaskSet : TriggerSetRunning(t)
  \/ \E t \in TaskSet : TriggerPlan(t)
  \/ \E t \in TaskSet : VoteWrite(t)
  \/ \E t \in TaskSet : VoteActivate(t)
  \/ \E t \in TaskSet : BackgroundInit(t)
  \/ \E t \in TaskSet : VoteRunInit(t)
  \/ \E t \in TaskSet : Supervisor(t)
  \/ \E t \in TaskSet : SupervisorRaises(t)
  \/ \E t \in TaskSet : PreferenceWorker(t)
  \/ \E t \in TaskSet : DestinationWorker(t)
  \/ \E t \in TaskSet : ConsensusRead(t)
  \/ \E t \in TaskSet : _decide_activities(t)
  \/ \E t \in TaskSet : _decide_destination(t)
  \/ \E t \in TaskSet : _decide_dates(t)
  \/ \E t \in TaskSet : ConsensusReload(t)
  \/ \E t \in TaskSet : Inspect(t)
  \/ \E t \in TaskSet : Finish(t)

SpecVotes == InitVotes /\ [][NextVotes]_vars

(* ------------------------------ readiness ------------------------------ *)
\* Planning is triggered once; the members mark and unmark themselves ready
\* for a phase that is open.
MaxReadyRequests == 4

Open(phase) == trip.phase_tracking.phases[phase].status \in {"active", "voting_in_progress"}

NextReady ==
  \/ NumRequests = 0 /\ TriggerRead
  \/ Accepting(MaxReadyRequests) /\ \E user \in Members, phase \in ReadyPhases :
                                       Open(phase) /\ mark_user_ready_read(user, phase)
  \/ Accepting(MaxReadyRequests) /\ \E user \in Members, phase \in ReadyPhases :
                                       Open(phase) /\ unmark_user_ready_read(user, phase)
  \/ \E t \in TaskSet : TriggerSetRunning(t)
  \/ \E t \in TaskSet : TriggerPlan(t)
  \/ \E t \in TaskSet : ReadyWrite(t)
  \/ \E t \in TaskSet : BackgroundInit(t)
  \/ \E t \in TaskSet : ItineraryRunInit(t)
  \/ \E t \in TaskSet : Supervisor(t)
  \/ \E t \in TaskSet : PreferenceWorker(t)
  \/ \E t \in TaskSet : DestinationWorker(t)
  \/ \E t \in TaskSet : ItineraryWorker(t)
  \/ \E t \in TaskSet : ConsensusRead(t)
  \/ \E t \in TaskSet : _decide_activities(t)
  \/ \E t \in TaskSet : _decide_destination(t)
  \/ \E t \in TaskSet : _decide_dates(t)
  \/ \E t \in TaskSet : _finalize_itinerary(t)
  \/ \E t \in TaskSet : ConsensusReload(t)
  \/ \E t \in TaskSet : Inspect(t)
  \/ \E t \in TaskSet : Finish(t)

SpecReady == InitQuiet /\ [][NextReady]_vars

\* the steps of the coroutines of the readiness environment
ReadySteps ==
  \/ \E t \in TaskSet : TriggerSetRunning(t)
  \/ \E t \in TaskSet : TriggerPlan(t)
  \/ \E t \in TaskSet : ReadyWrite(t)
  \/ \E t \in TaskSet : BackgroundInit(t)
  \/ \E t \in TaskSet : ItineraryRunInit(t)
  \/ \E t \in TaskSet : Supervisor(t)
  \/ \E t \in TaskSet : PreferenceWorker(t)
  \/ \E t \in TaskSet : DestinationWorker(t)
  \/ \E t \in TaskSet : ItineraryWorker(t)
  \/ \E t \in TaskSet : ConsensusRead(t)
  \/ \E t \in TaskSet : _decide_activities(t)
  \/ \E t \in TaskSet : _decide_destination(t)
  \/ \E t \in TaskSet : _decide_dates(t)
  \/ \E t \in TaskSet : _finalize_itinerary(t)
  \/ \E t \in TaskSet : ConsensusReload(t)
  \/ \E t \in TaskSet : Inspect(t)
  \/ \E t \in TaskSet : Finish(t)

\* every coroutine that can take a step eventually takes one
SpecReadyFair == SpecReady /\ WF_vars(ReadySteps)

(* ------------------------ triggering, any input ------------------------ *)
\* Planning is triggered on any preferences collection of up to MaxPrefs
\* documents; the run it starts is followed to its end.  A preferences document
\* is stored for whoever posts it (add_preference does not look at
\* trip.members), so the submitters are numbered on their own.
MaxPrefs == 3

DestChoices == {"a", "b"}

DateChoices ==
  { <<>>,
    << <<1, 5>> >>, << <<3, 8>> >>, << <<10, 15>> >>,
    << <<1, 5>>, <<7, 10>> >>,
    << <<1, 5>>, <<3, 8>> >> }

\* the collections of n documents, document i posted by submitter i
PrefsOfLen(n) ==
  { [i \in 1..n |-> Pref(i, f[i][1], f[i][2])] : f \in [1..n -> DestChoices \X DateChoices] }

\* two destinations tie for first place and a third one trails
TiedWithTrailer ==
  << Pref(1, "a", << <<1, 5>> >>), Pref(2, "a", << <<1, 5>> >>),
     Pref(3, "b", << <<1, 5>> >>), Pref(4, "b", << <<1, 5>> >>),
     Pref(5, "c", << <<1, 5>> >>) >>

TriggerInputs == UNION {PrefsOfLen(n) : n \in 1..MaxPrefs} \cup {TiedWithTrailer}

InitTrigger ==
  /\ llm = FALSE
  /\ db_errors = FALSE
  /\ api_errors = FALSE
  /\ prefs \in TriggerInputs
  /\ trip = NewTrip
  /\ tasks = EmptyBag
  /\ published = {}
  /\ completions = [p \in PhaseNames |-> 0]
  /\ activities = FALSE
  /\ research_cache = {}
  /\ itinerary_cache = FALSE
  /\ trip_deleted = FALSE
  /\ activity_docs = <<>>
  /\ votes = NoVotes
  /\ selected_activities = <<>>
  /\ api_calls = NoCalls

NextTrigger ==
  \/ NumRequests = 0 /\ TriggerRead
  \/ \E t \in TaskSet : TriggerSetRunning(t)
  \/ \E t \in TaskSet : TriggerPlan(t)
  \/ \E t \in TaskSet : BackgroundInit(t)
  \/ \E t \in TaskSet : Supervisor(t)
  \/ \E t \in TaskSet : PreferenceWorker(t)
  \/ \E t \in TaskSet : DestinationWorker(t)
  \/ \E t \in TaskSet : ConsensusRead(t)
  \/ \E t \in TaskSet : _decide_destination(t)
  \/ \E t \in TaskSet : _decide_dates(t)
  \/ \E t \in TaskSet : ConsensusReload(t)
  \/ \E t \in TaskSet : Inspect(t)
  \/ \E t \in TaskSet : Finish(t)

SpecTrigger == InitTrigger /\ [][NextTrigger]_vars

(* ---------------------- availability corrected ------------------------ *)
\* add_preference for a user whose document exists: update_one replaces the
\* fields of that document, here the available dates
add_preference(u, dates) ==
  /\ \E i \in 1..Len(prefs) :
       /\ prefs[i].user_id = u
       /\ prefs[i].available_dates # dates
       /\ prefs' = [prefs EXCEPT ![i].available_dates = dates]
  /\ UNCHANGED <<llm, db_errors, api_errors, trip, tasks, published, completions, activities, research_cache, itinerary_cache, trip_deleted, activity_docs, votes, selected_activities, api_calls>>

\* Planning is triggered, members change their availability, planning is
\* triggered again; each request is served before the next one arrives.
MaxRetriggerRequests == 2

NextRetrigger ==
  \/ Quiet /\ NumRequests < MaxRetriggerRequests /\ TriggerRead
  \/ Quiet /\ \E u \in Members, dates \in DateChoices : add_preference(u, dates)
  \/ \E t \in TaskSet : TriggerSetRunning(t)
  \/ \E t \in TaskSet : TriggerPlan(t)
  \/ \E t \in TaskSet : BackgroundInit(t)
  \/ \E t \in TaskSet : Supervisor(t)
  \/ \E t \in TaskSet : PreferenceWorker(t)
  \/ \E t \in TaskSet : DestinationWorker(t)
  \/ \E t \in TaskSet : ConsensusRead(t)
  \/ \E t \in TaskSet : _decide_destination(t)
  \/ \E t \in TaskSet : _decide_dates(t)
  \/ \E t \in TaskSet : ConsensusReload(t)
  \/ \E t \in TaskSet : Inspect(t)
  \/ \E t \in TaskSet : Finish(t)

SpecRetrigger == InitQuiet /\ [][NextRetrigger]_vars

(* --------------------------- polls, serially --------------------------- *)
\* The members disagree; planning is triggered once and the members vote,
\* one request after the other has been served and its run has ended.
MaxPollRequests == 5

PollSteps ==
  \/ \E t \in TaskSet : TriggerSetRunning(t)
  \/ \E t \in TaskSet : TriggerPlan(t)
  \/ \E t \in TaskSet : VoteWrite(t)
  \/ \E t \in TaskSet : VoteActivate(t)
  \/ \E t \in TaskSet : BackgroundInit(t)
  \/ \E t \in TaskSet : VoteRunInit(t)
  \/ \E t \in TaskSet : Supervisor(t)
  \/ \E t \in TaskSet : SupervisorRaises(t)
  \/ \E t \in TaskSet : PreferenceWorker(t)
  \/ \E t \in TaskSet : DestinationWorker(t)
  \/ \E t \in TaskSet : ConsensusRead(t)
  \/ \E t \in TaskSet : _decide_destination(t)
  \/ \E t \in TaskSet : _decide_dates(t)
  \/ \E t \in TaskSet : ConsensusReload(t)
  \/ \E t \in TaskSet : Inspect(t)
  \/ \E t \in TaskSet : Finish(t)

NextPoll ==
  \/ NumRequests = 0 /\ TriggerRead
  \/ Quiet /\ NumRequests < MaxPollRequests
       /\ \E user \in Members, phase \in PollPhases : VoteRead(user, phase)
  \/ \E t \in TaskSet : TriggerSetRunning(t)
  \/ \E t \in TaskSet : TriggerPlan(t)
  \/ \E t \in TaskSet : VoteWrite(t)
  \/ \E t \in TaskSet : VoteActivate(t)
  \/ \E t \in TaskSet : BackgroundInit(t)
  \/ \E t \in TaskSet : VoteRunInit(t)
  \/ \E t \in TaskSet : Supervisor(t)
  \/ \E t \in TaskSet : SupervisorRaises(t)
  \/ \E t \in TaskSet : PreferenceWorker(t)
  \/ \E t \in TaskSet : DestinationWorker(t)
  \/ \E t \in TaskSet : ConsensusRead(t)
  \/ \E t \in TaskSet : _decide_destination(t)
  \/ \E t \in TaskSet : _decide_dates(t)
  \/ \E t \in TaskSet : ConsensusReload(t)
  \/ \E t \in TaskSet : Inspect(t)
  \/ \E t \in TaskSet : Finish(t)

SpecPoll == InitVotes /\ [][NextPoll]_vars

\* every coroutine that can take a step eventually takes one
SpecPollFair == SpecPoll /\ WF_vars(PollSteps)

(* ------------------------ the trip is deleted -------------------------- *)
\* Planning is triggered once; while its loop is between two steps the
\* creator may delete the trip.
BetweenSteps == \E t \in TaskSet : t.kind = "background" /\ t.pc = "supervisor"

DeleteSteps ==
  \/ \E t \in TaskSet : TriggerSetRunning(t)
  \/ \E t \in TaskSet : TriggerPlan(t)
  \/ \E t \in TaskSet : BackgroundInit(t)
  \/ \E t \in TaskSet : Supervisor(t)
  \/ \E t \in TaskSet : PreferenceWorker(t)
  \/ \E t \in TaskSet : DestinationWorker(t)
  \/ \E t \in TaskSet : ConsensusRead(t)
  \/ \E t \in TaskSet : _decide_destination(t)
  \/ \E t \in TaskSet : _decide_dates(t)
  \/ \E t \in TaskSet : ConsensusReload(t)
  \/ \E t \in TaskSet : Inspect(t)
  \/ \E t \in TaskSet : Finish(t)

NextDelete ==
  \/ NumRequests = 0 /\ TriggerRead
  \/ BetweenSteps /\ delete_trip
  \/ \E t \in TaskSet : TriggerSetRunning(t)
  \/ \E t \in TaskSet : TriggerPlan(t)
  \/ \E t \in TaskSet : BackgroundInit(t)
  \/ \E t \in TaskSet : Supervisor(t)
  \/ \E t \in TaskSet : PreferenceWorker(t)
  \/ \E t \in TaskSet : DestinationWorker(t)
  \/ \E t \in TaskSet : ConsensusRead(t)
  \/ \E t \in TaskSet : _decide_destination(t)
  \/ \E t \in TaskSet : _decide_dates(t)
  \/ \E t \in TaskSet : ConsensusReload(t)
  \/ \E t \in TaskSet : Inspect(t)
  \/ \E t \in TaskSet : Finish(t)

SpecDelete == InitQuiet /\ [][NextDelete]_vars

SpecDeleteFair == SpecDelete /\ WF_vars(DeleteSteps)

(* -------------------------- votes of any caller ------------------------ *)
\* submit_vote, mark_user_ready and unmark_user_ready take user_id from the
\* request body and do not look it up in trip.members: a caller may be a
\* member or somebody who never joined or has left the trip.
Outsider == NumMembers + 1
Callers == Members \cup {Outsider}

MaxCallerVoteRequests == 3

NextCallerVotes ==
  \/ NumRequests = 0 /\ TriggerRead
  \/ Accepting(MaxCallerVoteRequests)
       /\ \E user \in Callers, phase \in PhaseNames : VoteRead(user, phase)
  \/ \E t \in TaskSet : TriggerSetRunning(t)
  \/ \E t \in TaskSet : TriggerPlan(t)
  \/ \E t \in TaskSet : VoteWrite(t)
  \/ \E t \in TaskSet : VoteActivate(t)
  \/ \E t \in TaskSet : BackgroundInit(t)
  \/ \E t \in TaskSet : VoteRunInit(t)
  \/ \E t \in TaskSet : Supervisor(t)
  \/ \E t \in TaskSet : SupervisorRaises(t)
  \/ \E t \in TaskSet : PreferenceWorker(t)
  \/ \E t \in TaskSet : DestinationWorker(t)
  \/ \E t \in TaskSet : ConsensusRead(t)
  \/ \E t \in TaskSet : _decide_activities(t)
  \/ \E t \in TaskSet : _decide_destination(t)
  \/ \E t \in TaskSet : _decide_dates(t)
  \/ \E t \in TaskSet : ConsensusReload(t)
  \/ \E t \in TaskSet : Inspect(t)
  \/ \E t \in TaskSet : Finish(t)

SpecCallerVotes == InitVotes /\ [][NextCallerVotes]_vars

NextCallerReady ==
  \/ NumRequests = 0 /\ TriggerRead
  \/ Accepting(MaxReadyRequests) /\ \E user \in Callers, phase \in ReadyPhases :
                                       Open(phase) /\ mark_user_ready_read(user, phase)
  \/ Accepting(MaxReadyRequests) /\ \E user \in Callers, phase \in ReadyPhases :
                                       Open(phase) /\ unmark_user_ready_read(user, phase)
  \/ \E t \in TaskSet : TriggerSetRunning(t)
  \/ \E t \in TaskSet : TriggerPlan(t)
  \/ \E t \in TaskSet : ReadyWrite(t)
  \/ \E t \in TaskSet : BackgroundInit(t)
  \/ \E t \in TaskSet : ItineraryRunInit(t)
  \/ \E t \in TaskSet : Supervisor(t)
  \/ \E t \in TaskSet : PreferenceWorker(t)
  \/ \E t \in TaskSet : DestinationWorker(t)
  \/ \E t \in TaskSet : ItineraryWorker(t)
  \/ \E t \in TaskSet : ConsensusRead(t)
  \/ \E t \in TaskSet : _decide_activities(t)
  \/ \E t \in TaskSet : _decide_destination(t)
  \/ \E t \in TaskSet : _decide_dates(t)
  \/ \E t \in TaskSet : _finalize_itinerary(t)
  \/ \E t \in TaskSet : ConsensusReload(t)
  \/ \E t \in TaskSet : Inspect(t)
  \/ \E t \in TaskSet : Finish(t)

SpecCallerReady == InitQuiet /\ [][NextCallerReady]_vars

(* ------------------------- approving the itinerary --------------------- *)
\* Requests served one at a time: planning is triggered once, members mark
\* ready for activity_voting while it is open, and for itinerary_approval
\* once an itinerary has been generated.
MaxApprovalRequests == 5

ApprovalPhases == {"activity_voting", "itinerary_approval"}

MayMark(phase) ==
  IF phase = "itinerary_approval" THEN itinerary_cache ELSE Open(phase)

ApprovalSteps ==
  \/ \E t \in TaskSet : TriggerSetRunning(t)
  \/ \E t \in TaskSet : TriggerPlan(t)
  \/ \E t \in TaskSet : ReadyWrite(t)
  \/ \E t \in TaskSet : BackgroundInit(t)
  \/ \E t \in TaskSet : ItineraryRunInit(t)
  \/ \E t \in TaskSet : Supervisor(t)
  \/ \E t \in TaskSet : PreferenceWorker(t)
  \/ \E t \in TaskSet : DestinationWorker(t)
  \/ \E t \in TaskSet : ItineraryWorker(t)
  \/ \E t \in TaskSet : ConsensusRead(t)
  \/ \E t \in TaskSet : _decide_activities(t)
  \/ \E t \in TaskSet : _decide_destination(t)
  \/ \E t \in TaskSet : _decide_dates(t)
  \/ \E t \in TaskSet : _finalize_itinerary(t)
  \/ \E t \in TaskSet : ConsensusReload(t)
  \/ \E t \in TaskSet : Inspect(t)
  \/ \E t \in TaskSet : Finish(t)

NextApproval ==
  \/ NumRequests = 0 /\ TriggerRead
  \/ Quiet /\ NumRequests < MaxApprovalRequests
       /\ \E user \in Members, phase \in ApprovalPhases :
            MayMark(phase) /\ mark_user_ready_read(user, phase)
  \/ \E t \in TaskSet : TriggerSetRunning(t)
  \/ \E t \in TaskSet : TriggerPlan(t)
  \/ \E t \in TaskSet : ReadyWrite(t)
  \/ \E t \in TaskSet : BackgroundInit(t)
  \/ \E t \in TaskSet : ItineraryRunInit(t)
  \/ \E t \in TaskSet : Supervisor(t)
  \/ \E t \in TaskSet : PreferenceWorker(t)
  \/ \E t \in TaskSet : DestinationWorker(t)
  \/ \E t \in TaskSet : ItineraryWorker(t)
  \/ \E t \in TaskSet : ConsensusRead(t)
  \/ \E t \in TaskSet : _decide_activities(t)
  \/ \E t \in TaskSet : _decide_destination(t)
  \/ \E t \in TaskSet : _decide_dates(t)
  \/ \E t \in TaskSet : _finalize_itinerary(t)
  \/ \E t \in TaskSet : ConsensusReload(t)
  \/ \E t \in TaskSet : Inspect(t)
  \/ \E t \in TaskSet : Finish(t)

SpecApproval == InitQuiet /\ [][NextApproval]_vars

\* every coroutine that can take a step eventually takes one
SpecApprovalFair == SpecApproval /\ WF_vars(ApprovalSteps)

\* the same requests while calls of the OpenAI API may fail
InitApiErrors == Init /\ ~llm /\ ~db_errors /\ api_errors

SpecApiErrors == InitApiErrors /\ [][NextApproval]_vars

(* --------------------------- activity votes ---------------------------- *)
\* def vval(v): 1 for "up", -1 for "down"
vval(v) == IF v = "up" THEN 1 ELSE -1

\* "Clamp the score to [0,1]", in tenths
ClampScore(score) == IF score < 0 THEN 0 ELSE IF score > 10 THEN 10 ELSE score

\* update_one({"name": activity_name}, {"$inc": {"score": delta}}), find_one
\* and the clamping update_one: the first document of that name, if any, and
\* no field but score
AdjustScore(docs, name, delta) ==
  LET hits == {i \in DOMAIN docs : docs[i].name = name}
  IN  IF hits = {} THEN docs
      ELSE LET first == CHOOSE i \in hits : \A j \in hits : i <= j
           IN  [docs EXCEPT ![first].score = ClampScore(@ + delta)]

\* POST /vote: upsert the vote record (and its copy in the user's preferences
\* document), then move the activity's score by a tenth per changed vote
vote_activity(user_id, activity_name, vote) ==
  /\ LET prev == votes[user_id, activity_name]
         delta == IF prev = "none" THEN vval(vote)
                  ELSE IF prev = vote THEN 0
                  ELSE vval(vote) - vval(prev)
     IN  /\ votes' = [votes EXCEPT ![user_id, activity_name] = vote]
         /\ activity_docs' = IF delta # 0
                             THEN AdjustScore(activity_docs, activity_name, delta)
                             ELSE activity_docs
  /\ UNCHANGED <<llm, db_errors, api_errors, prefs, trip, tasks, published, completions, activities, research_cache, itinerary_cache, trip_deleted, selected_activities, api_calls>>

\* DELETE /vote: "Nothing to remove" without a record; else delete the record
\* and take its effect out of the score
unvote_activity(user_id, activity_name) ==
  /\ LET prev == votes[user_id, activity_name]
     IN  IF prev = "none"
         THEN UNCHANGED <<votes, activity_docs>>
         ELSE /\ votes' = [votes EXCEPT ![user_id, activity_name] = "none"]
              /\ activity_docs' = AdjustScore(activity_docs, activity_name, 0 - vval(prev))
  /\ UNCHANGED <<llm, db_errors, api_errors, prefs, trip, tasks, published, completions, activities, research_cache, itinerary_cache, trip_deleted, selected_activities, api_calls>>

\* Members who submitted preferences vote on the suggested activities while
\* activity voting is open and no coroutine is at work, then mark themselves
\* ready.
NextActivityVotes ==
  \/ NumRequests = 0 /\ TriggerRead
  \/ Quiet /\ NumRequests < MaxApprovalRequests
       /\ \E user \in Members, phase \in ApprovalPhases :
            MayMark(phase) /\ mark_user_ready_read(user, phase)
  \/ Quiet /\ Open("activity_voting")
       /\ \E user \in MembersWithPrefs(prefs), name \in ActivityNames, vote \in {"up", "down"} :
            vote_activity(user, name, vote)
  \/ Quiet /\ Open("activity_voting")
       /\ \E user \in MembersWithPrefs(prefs), name \in ActivityNames :
            unvote_activity(user, name)
  \/ \E t \in TaskSet : TriggerSetRunning(t)
  \/ \E t \in TaskSet : TriggerPlan(t)
  \/ \E t \in TaskSet : ReadyWrite(t)
  \/ \E t \in TaskSet : BackgroundInit(t)
  \/ \E t \in TaskSet : ItineraryRunInit(t)
  \/ \E t \in TaskSet : Supervisor(t)
  \/ \E t \in TaskSet : PreferenceWorker(t)
  \/ \E t \in TaskSet : DestinationWorker(t)
  \/ \E t \in TaskSet : ItineraryWorker(t)
  \/ \E t \in TaskSet : ConsensusRead(t)
  \/ \E t \in TaskSet : _decide_activities(t)
  \/ \E t \in TaskSet : _decide_destination(t)
  \/ \E t \in TaskSet : _decide_dates(t)
  \/ \E t \in TaskSet : _finalize_itinerary(t)
  \/ \E t \in TaskSet : ConsensusReload(t)
  \/ \E t \in TaskSet : Inspect(t)
  \/ \E t \in TaskSet : Finish(t)

SpecActivityVotes == InitQuiet /\ [][NextActivityVotes]_vars

(* ============================ properties =============================== *)
Phases(doc) == doc.phase_tracking.phases
NoDuplicates(s) == \A i, j \in 1..Len(s) : i # j => s[i] # s[j]

\* the tasks that are inside the supervisor loop (between the entry of
\* run_orchestrator_agent and its return)
LoopPcs == WORKERS \cup {"supervisor", "consensus_decide", "consensus_reload"}
InLoop == {t \in TaskSet : IsLoop(t) /\ t.pc \in LoopPcs}
NumInLoop == BagCardinality([t \in InLoop |-> tasks[t]])

\* no run takes more than MAX_STEPS supervisor steps, and a run whose step
\* counter reached MAX_STEPS was ended by the supervisor with next_task = end,
\* done = true and the step-cap reason
StepCap ==
  \A t \in TaskSet :
    /\ t.st.steps <= MAX_STEPS
    /\ t.st.steps = MAX_STEPS =>
         /\ t.pc \notin LoopPcs
         /\ t.st.next_task = "end"
         /\ t.st.done
         /\ t.st.reason = "max_steps"

C2_OneRunStarted ==
  CopiesIn(Done("trigger", 0, "", "started"), tasks)
    + CopiesIn(Done("trigger", 0, "", "consensus"), tasks) <= 1

\* the trigger requests in the system, served or not
Triggers == {t \in TaskSet : t.kind = "trigger"}
NumTriggers == BagCardinality([t \in Triggers |-> tasks[t]])

\* C3: a trigger request that arrives while orchestrator_status is running,
\* paused or completed is answered at once with already_started; the step
\* changes no trip field, starts no task and publishes nothing.
C3_GuardedTriggerIsNoOp ==
  [][ (/\ trip.orchestrator_status \in {"running", "paused", "completed"}
       /\ NumTriggers' = NumTriggers + 1)
      => /\ tasks' = tasks (+) Spawn(Done("trigger", 0, "", "already_started"))
         /\ UNCHANGED <<trip, published, completions, activities, research_cache, itinerary_cache, trip_deleted, activity_docs, votes, selected_activities, api_calls>> ]_vars

\* C3 case: a trigger was turned away on orchestrator_status alone (the trip
\* status never left collecting_preferences)
C3_Witness ==
  /\ CopiesIn(Done("trigger", 0, "", "already_started"), tasks) > 0
  /\ trip.status = "collecting_preferences"
  /\ trip.orchestrator_status = "paused"

\* C4: at most one supervisor loop runs for the trip at any time.
C4_OneLoop == NumInLoop <= 1

\* C5: every vote option's votes field equals the number of its voters, and
\* no member appears twice among an option's voters.
C5_VotesMatchVoters ==
  \A p \in PhaseNames :
    \A i \in 1..Len(Phases(trip)[p].options) :
      LET opt == Phases(trip)[p].options[i]
      IN  opt.votes = Len(opt.voters) /\ NoDuplicates(opt.voters)

\* C5 case: votes were cast and one option holds more than one voter
C5_Witness ==
  \E p \in PhaseNames :
    \E i \in 1..Len(Phases(trip)[p].options) :
      /\ Len(Phases(trip)[p].options[i].voters) >= 2
      /\ Phases(trip)[p].options[i].votes >= 2

\* C6: the write of one member's vote keeps every other member's vote.
C6_NoLostVote ==
  [][ \A t \in TaskSet :
        (t.kind = "vote" /\ t.pc = "write" /\ CopiesIn(t, tasks') < CopiesIn(t, tasks))
        => \A m \in Members \ {t.user} :
             \A i \in 1..Len(Phases(trip)[t.phase].options) :
               InSeq(m, Phases(trip)[t.phase].options[i].voters)
                 => InSeq(m, Phases(trip')[t.phase].options[i].voters) ]_vars

\* the readiness requests that were read in this step
NewReadyRequests ==
  {t \in TaskSet' : /\ t.kind \in {"mark_ready", "unmark_ready"}
                    /\ t.pc = "write"
                    /\ CopiesIn(t, tasks') > CopiesIn(t, tasks)}

\* C7: no users_ready list ever holds a member twice; marking a member that
\* is already in the list leaves the list as it is, marking another appends
\* exactly that member, and unmarking removes exactly that member.
C7_ReadyIdempotent ==
  /\ [](\A p \in PhaseNames : NoDuplicates(Phases(trip)[p].users_ready))
  /\ [][ \A t \in NewReadyRequests :
           LET before == Phases(trip)[t.phase].users_ready
               after == Phases(t.snap)[t.phase].users_ready
           IN  IF t.kind = "mark_ready"
               THEN /\ InSeq(t.user, before) => after = before
                    /\ ~InSeq(t.user, before) => after = Append(before, t.user)
               ELSE /\ Range(after) = Range(before) \ {t.user}
                    /\ after = SelectSeq(before, LAMBDA m : m # t.user) ]_vars

\* C7 case: a member that is in the list marks again, and the list written
\* holds every member once
C7_Witness ==
  \E t \in TaskSet :
    /\ t.kind = "mark_ready" /\ t.pc = "write"
    /\ InSeq(t.user, Phases(trip)[t.phase].users_ready)
    /\ Len(Phases(trip)[t.phase].users_ready) = NumMembers
    /\ Phases(t.snap)[t.phase].users_ready = Phases(trip)[t.phase].users_ready

\* pending -> active -> voting_in_progress -> completed
Rank(status) ==
  CASE status = "pending" -> 0
    [] status = "active" -> 1
    [] status = "voting_in_progress" -> 2
    [] status = "completed" -> 3

\* C8: the status of a phase only moves forward.
C8_StatusForward ==
  [][ \A p \in PhaseNames :
        Rank(Phases(trip')[p].status) >= Rank(Phases(trip)[p].status) ]_vars

PhaseIndex(p) == CHOOSE i \in 1..Len(PhaseOrder) : PhaseOrder[i] = p

\* C9: the current phase is a phase all of whose predecessors are completed.
C9_PredecessorsCompleted ==
  LET cp == trip.phase_tracking.current_phase
  IN  cp \in PhaseNames =>
        \A q \in PhaseNames :
          PhaseIndex(q) < PhaseIndex(cp) => Phases(trip)[q].status = "completed"

\* C10: the completion of a phase is written at most once.
C10_CompletedOnce == \A p \in PhaseNames : completions[p] <= 1

(* ------------------------------- C11 ----------------------------------- *)
\* the destination requested strictly most often, or None
Majority(ps) ==
  LET dests == AllDestinations(ps)
      best == {d \in Range(dests) : \A e \in Range(dests) \ {d} : CountIn(dests, d) > CountIn(dests, e)}
  IN  IF best = {} THEN None ELSE CHOOSE d \in best : TRUE

\* C11: when one destination is requested strictly most often,
\* destination_decision never gets vote options or the status
\* voting_in_progress, and once it is completed the trip's destination is that
\* destination, whether or not the dates conflict.
C11_MajorityResolves ==
  Majority(prefs) # None =>
    LET dd == Phases(trip)["destination_decision"]
    IN  /\ dd.options = <<>>
        /\ dd.status # "voting_in_progress"
        /\ dd.status = "completed" => trip.destination = Majority(prefs)

(* ------------------------------- C12 ----------------------------------- *)
\* the destinations requested most often
TiedTop(ps) ==
  LET dests == AllDestinations(ps)
  IN  {d \in Range(dests) : \A e \in Range(dests) : CountIn(dests, d) >= CountIn(dests, e)}

\* C12: the step that creates the destination vote options creates one option
\* per destination tied for first place and no other, each without votes or
\* voters, sets destination_decision to voting_in_progress and publishes the
\* voting prompt; as long as the phase is voting_in_progress the trip has no
\* destination.
C12_TieOpensPoll ==
  /\ [](Phases(trip)["destination_decision"].status = "voting_in_progress"
          => trip.destination = None)
  /\ [][ LET before == Phases(trip)["destination_decision"]
             after == Phases(trip')["destination_decision"]
         IN  (before.options = <<>> /\ after.options # <<>>)
             => /\ Cardinality(TiedTop(prefs)) >= 2
                /\ Len(after.options) = Cardinality(TiedTop(prefs))
                /\ {after.options[i].value.dest : i \in 1..Len(after.options)} = TiedTop(prefs)
                /\ \A i \in 1..Len(after.options) :
                     after.options[i].voters = <<>> /\ after.options[i].votes = 0
                /\ after.status = "voting_in_progress"
                /\ "voting" \in published'
                /\ trip'.destination = None ]_vars

\* C12 case: two destinations tie, a third trails, and the poll is open
C12_Witness ==
  /\ prefs = TiedWithTrailer
  /\ Len(Phases(trip)["destination_decision"].options) = 2
  /\ Phases(trip)["destination_decision"].status = "voting_in_progress"
  /\ "voting" \in published

(* ------------------------------- C13 ----------------------------------- *)
\* the phases decided by a vote
VotedPhases == {"destination_decision", "date_selection"}

\* the vote of phase p is resolved in this step
Resolved(p) ==
  /\ Phases(trip)[p].options # <<>>
  /\ Phases(trip)[p].status # "completed"
  /\ Phases(trip')[p].status = "completed"

\* C13: a destination or date vote is resolved only when every member of the
\* trip is among the voters.
C13_AllMembersVoted ==
  [][ \A p \in VotedPhases :
        Resolved(p) => Members \subseteq AllVoters(Phases(trip')[p].options) ]_vars

(* ------------------------------- C14 ----------------------------------- *)
\* the options no other option of the poll has more voters than
MostVoted(options) ==
  {options[i].value : i \in {k \in 1..Len(options) :
       ~ \E j \in 1..Len(options) : Len(options[j].voters) > Len(options[k].voters)}}

\* what the resolution of phase p stored in the trip, as an option value
Chosen(doc, p) ==
  IF p = "destination_decision" THEN DestVal(doc.destination) ELSE doc.selected_dates

\* the run that resolves phase p in this step: it was deciding p and is not
\* deciding any more
Resolver(t, p) ==
  /\ Deciding(t, p)
  /\ CopiesIn(t, tasks') < CopiesIn(t, tasks)

\* C14: when a vote is resolved the winner is an option with the most votes
\* among the ballots counted; when the top is tied the winner is one of the
\* tied top options and never another candidate.
C14_WinnerIsTopVoted ==
  [][ \A p \in VotedPhases :
        completions'[p] # completions[p] =>
          \E t \in TaskSet :
            /\ Resolver(t, p)
            /\ LET options == t.snap.phase_tracking.phases[p].options
               IN  options # <<>> => Chosen(trip', p) \in MostVoted(options) ]_vars

\* a resolved poll whose winner holds more votes than another option
C14_Witness ==
  \E p \in VotedPhases :
    LET options == Phases(trip)[p].options
    IN  /\ Phases(trip)[p].status = "completed"
        /\ Members \subseteq AllVoters(options)
        /\ \E i, j \in 1..Len(options) :
             /\ options[i].value = Chosen(trip, p)
             /\ Len(options[j].voters) < Len(options[i].voters)

(* ------------------------------- C15 ----------------------------------- *)
\* two or more availability windows were submitted and no two of them share
\* a day
PairwiseDisjoint(ps) ==
  LET ranges == AllDateRanges(ps)
  IN  /\ Len(ranges) >= 2
      /\ \A i, j \in 1..Len(ranges) :
           i < j => (ranges[i][2] < ranges[j][1] \/ ranges[j][2] < ranges[i][1])

\* C15: when the submitted availability windows are pairwise disjoint the
\* trigger answers with the incompatible-dates outcome: no dates and no
\* duration are stored in the trip, and no Supervisor run is started.
C15_DisjointDatesStop ==
  PairwiseDisjoint(prefs) =>
    /\ trip.selected_dates = NoDates
    /\ trip.trip_duration_days = NoDays
    /\ "navigate_to_chat" \notin published
    /\ \A t \in TaskSet :
         /\ ~IsLoop(t)
         /\ (t.kind = "trigger" /\ t.pc = "done") =>
               /\ t.resp = "dates_incompatible"
               /\ "dates_incompatible" \in published

\* two submitters with disjoint windows, and the trigger has answered
C15_Witness ==
  /\ PairwiseDisjoint(prefs)
  /\ Cardinality(MembersWithPrefs(prefs)) >= 2
  /\ \E t \in TaskSet : t.kind = "trigger" /\ t.pc = "done" /\ t.resp = "dates_incompatible"

(* ------------------------------- C16 ----------------------------------- *)
\* range r lies inside one of the windows of the preference document pref
InsideAWindow(r, pref) ==
  \E k \in 1..Len(pref.available_dates) :
    /\ pref.available_dates[k][1] <= r.first
    /\ r.last <= pref.available_dates[k][2]

\* dates are stored in the trip and no date poll was planned or held
AutoSelected ==
  /\ trip.selected_dates # NoDates
  /\ Phases(trip)["date_selection"].date_options = <<>>
  /\ Phases(trip)["date_selection"].options = <<>>

\* C16: whenever a date range is auto-selected without a vote (more than one
\* window having been submitted), there is exactly one candidate overlap and
\* the selected range lies inside a window of every submitter of dates.
C16_AutoSelectedFitsAll ==
  (AutoSelected /\ Len(AllDateRanges(prefs)) > 1) =>
    /\ Cardinality(Overlaps(AllDateRanges(prefs))) = 1
    /\ \A i \in 1..Len(prefs) :
         prefs[i].available_dates # <<>> => InsideAWindow(trip.selected_dates, prefs[i])

(* ------------------------------- C17 ----------------------------------- *)
\* C17: activity_voting is marked completed only in states where users_ready
\* covers every member of the trip.
C17_ReadyCoversMembers ==
  [][ ( /\ Phases(trip)["activity_voting"].status # "completed"
        /\ Phases(trip')["activity_voting"].status = "completed" )
      => /\ Len(Phases(trip')["activity_voting"].users_ready) >= NumMembers
         /\ Members \subseteq Range(Phases(trip')["activity_voting"].users_ready) ]_vars

(* ------------------------------- C18 ----------------------------------- *)
\* every member has marked ready for the phase
AllReady(phase) == Members \subseteq Range(Phases(trip)[phase].users_ready)

\* the trip is fully planned: every phase of the plan is completed
FullyPlanned == \A p \in PhaseNames : Phases(trip)[p].status = "completed"

\* C18: in a trip that has produced an itinerary, once every member has
\* marked ready for itinerary_approval, that phase is eventually marked
\* completed and the trip is marked fully planned.
C18_ApprovalCompletes ==
  (itinerary_cache /\ AllReady("itinerary_approval"))
    ~> (Phases(trip)["itinerary_approval"].status = "completed" /\ FullyPlanned)

(* ------------------------------- C19 ----------------------------------- *)
\* a phase waits on member action: the current phase is a poll that is open,
\* or a readiness phase that is not completed; or no phase is current and
\* activity_voting is not completed
PhaseWaits(ad) ==
  LET pt == ad.phase_tracking
      cp == pt.current_phase
  IN  /\ pt.present
      /\ IF cp \in PollPhases THEN pt.phases[cp].status = "voting_in_progress"
         ELSE IF cp \in PhaseNames THEN pt.phases[cp].status # "completed"
         ELSE pt.phases["activity_voting"].status # "completed"

\* a run is at the supervisor, a phase waits for the members and no
\* deterministic rule matches
WaitingAtSupervisor(t) ==
  /\ IsLoop(t) /\ t.pc = "supervisor"
  /\ DeterministicSuggestion(t.st.agent_data) = None
  /\ PhaseWaits(t.st.agent_data)

\* the Supervisor ends the loop, not done, because it waits: it chooses no
\* worker and does not consult the llm
EndsWaiting(st) ==
  \A s \in supervisor_agent(st) :
    /\ s.next_task = "end"
    /\ s.done = FALSE
    /\ s.reason = "waiting"

\* C19 as stated: with a phase waiting on member action and no deterministic
\* rule matching, the Supervisor returns next_task = end with done = false
\* without choosing a worker or consulting the llm.
C19_WaitingEndsNotDone ==
  \A t \in TaskSet : WaitingAtSupervisor(t) => EndsWaiting(t.st)

\* C19 amended: the same, for every Supervisor step before the step cap.
C19_WaitingEndsNotDoneBelowCap ==
  \A t \in TaskSet :
    (WaitingAtSupervisor(t) /\ t.st.steps + 1 < MAX_STEPS) => EndsWaiting(t.st)

\* with an llm configured, a run has left the loop with the waiting decision
C19_Witness ==
  /\ llm
  /\ \E t \in TaskSet :
       /\ t.kind = "background" /\ t.pc = "inspect"
       /\ t.st.next_task = "end" /\ t.st.reason = "waiting" /\ ~t.st.done
       /\ t.st.steps < MAX_STEPS

(* ------------------------------- C20 ----------------------------------- *)
\* run t leaves the loop's caller in this step, writing RunGuard
SetsGuard(t) ==
  /\ t.kind = "background" /\ t.pc = "finish"
  /\ CopiesIn(t, tasks') < CopiesIn(t, tasks)

\* C20: whenever the loop has exited while a phase still waits on member
\* action, RunGuard is set to paused, with done = false, and never to
\* completed; RunGuard is set to completed only when no phase waits.
C20_PausedWhileWaiting ==
  [][ \A t \in TaskSet :
        (SetsGuard(t) /\ PhaseWaits(trip)) =>
           /\ trip'.orchestrator_status = "paused"
           /\ t.st.done = FALSE ]_vars

(* ------------------------------- C21 ----------------------------------- *)
\* every member is marked ready in activity_voting, which is still open, and
\* a catalog and a trip duration exist
AllMarkedReady ==
  /\ Open("activity_voting")
  /\ AllReady("activity_voting")
  /\ activities
  /\ trip.trip_duration_days # NoDays

\* a resumed run is about to execute the itinerary planner
PlannerInvoked ==
  \E t \in TaskSet : t.kind = "itinerary_run" /\ t.pc = "itinerary_planner"

\* C21: after all members are marked ready in activity_voting, the direct
\* run of the consensus agent completes the phase, and a resumed Supervisor
\* run eventually invokes itinerary_planner, provided a catalog and a trip
\* duration exist.
C21_ReadyLeadsToPlanner ==
  /\ AllMarkedReady ~> (Phases(trip)["activity_voting"].status = "completed")
  /\ AllMarkedReady ~> PlannerInvoked


(* ---------------------------------------------------------------------- *)
\* C22: a run that paused for votes is resumed by the vote that completes
\* the poll: once every member has voted on an open poll the phase is
\* eventually completed, after the destination poll the resumed loop goes
\* on into destination research, and no resumed loop ends in a fault of the
\* Supervisor.
AllVoted(p) ==
  /\ trip.orchestrator_status = "paused"
  /\ trip.phase_tracking.present
  /\ trip.phase_tracking.current_phase = p
  /\ Phases(trip)[p].status \in {"voting_in_progress", "active"}
  /\ Members \subseteq AllVoters(Phases(trip)[p].options)

ResearchInvoked ==
  \E t \in TaskSet : t.kind = "vote_run" /\ t.pc = "destination_researcher"

C22_VoteResumesRun ==
  /\ \A p \in PollPhases : AllVoted(p) ~> (Phases(trip)[p].status = "completed")
  /\ AllVoted("destination_decision") ~> ResearchInvoked
  /\ [][\A t \in TaskSet :
         t.kind = "vote_run" /\ SupervisorFaults(t.st) => ~SupervisorRaises(t)]_vars

(* ---------------------------------------------------------------------- *)
\* C23: when the pipeline has completed (the itinerary planner, its last
\* worker, has produced an itinerary), the RunGuard eventually reads
\* completed, whichever run executed the final stretch.
PipelineCompleted == itinerary_cache

C23_CompletedGuard ==
  PipelineCompleted ~> (trip.orchestrator_status = "completed")

(* ---------------------------------------------------------------------- *)
\* C24: an error that leaves the loop reaches the error handling of whoever
\* launched the loop, and that handling sets the RunGuard to error and
\* publishes an error notification; the run takes no further Supervisor step.
Raises(t) == SupervisorRaises(t)

HandlerPending == \E t \in TaskSet : IsLoop(t) /\ t.pc = "failed"

C24_ErrorIsSurfaced ==
  /\ [][\A t \in TaskSet : Raises(t) =>
         /\ HandlerPending'
         /\ \A u \in TaskSet' : IsLoop(u) => u.pc = "failed"]_vars
  /\ HandlerPending ~> (trip.orchestrator_status = "error" /\ "error" \in published)

(* ---------------------------------------------------------------------- *)
\* C25: when the trip record has gone while the loop is about to run a step
\* that reads it, the run ends with an error message, and it announces
\* neither a pause nor a completion.
MissedMidRun ==
  /\ trip_deleted
  /\ \E t \in TaskSet : t.kind = "background" /\ t.pc = "consensus_resolver"

C25_MissingTripIsError ==
  /\ MissedMidRun ~> ("error" \in published)
  /\ [][trip_deleted => (published' \ published) \cap {"paused", "completed"} = {}]_vars

(* ---------------------------------------------------------------------- *)
\* C26: after an incompatible-dates outcome no date range is stored, and a
\* later trigger, made when the stored availability is compatible, is not
\* turned away as "already started" unless planning really started.
AnsweredAlreadyStarted ==
  tasks' = tasks (+) Spawn(Done("trigger", 0, "", "already_started"))

C26_RetriggerAfterIncompatible ==
  /\ []((trip.status = "collecting_preferences" /\ "dates_incompatible" \in published)
          => trip.selected_dates = NoDates)
  /\ [][(/\ "dates_incompatible" \in published
          /\ ~Aggregate(prefs, trip.destination).no_compatible_dates
          /\ AnsweredAlreadyStarted)
          => trip.status \in {"planning", "consensus"}]_vars

(* ---------------------------------------------------------------------- *)
\* C27: whatever the generation model proposes, every decision the
\* Supervisor can take, and every decision a run has taken, names a worker
\* of the registry or end.
RegistryOrEnd == WORKERS \cup {"end"}

C27_NextTaskInRegistry ==
  \A t \in TaskSet : IsLoop(t) =>
    /\ t.st.steps > 0 => t.st.next_task \in RegistryOrEnd
    /\ (t.pc = "supervisor" /\ ~SupervisorFaults(t.st)) =>
          \A d \in supervisor_agent(t.st) : d.next_task \in RegistryOrEnd

\* a run ended on a proposal that was not in the registry
C27_Witness ==
  \E t \in TaskSet : /\ t.kind = "background" /\ t.pc = "inspect"
                     /\ t.st.reason = "coerced" /\ t.st.next_task = "end"

(* ---------------------------------------------------------------------- *)
\* C28: below the step cap, when the predicate of some worker holds the
\* Supervisor selects the first such worker in the order preference_processor,
\* consensus_resolver, destination_researcher, itinerary_planner; a worker
\* selected by rule has its predicate true and every earlier predicate false.
Priority == <<"preference_processor", "consensus_resolver",
              "destination_researcher", "itinerary_planner">>

Needs(w, ad) ==
  CASE w = "preference_processor" -> _needs_preference_processing(ad)
    [] w = "consensus_resolver" -> _needs_consensus(ad)
    [] w = "destination_researcher" -> _needs_destination_research(ad)
    [] w = "itinerary_planner" -> _needs_itinerary_generation(ad)

FirstMatch(ad, i) ==
  Needs(Priority[i], ad) /\ \A j \in 1..(i - 1) : ~Needs(Priority[j], ad)

C28_FirstMatchInOrder ==
  \A t \in TaskSet :
    (IsLoop(t) /\ t.pc = "supervisor" /\ ~SupervisorFaults(t.st)
       /\ ~CapReached(t.st.steps + 1)) =>
      \A d \in supervisor_agent(t.st) :
        /\ \A i \in 1..4 : FirstMatch(t.st.agent_data, i) => d.next_task = Priority[i]
        /\ d.reason = "deterministic" =>
             \E i \in 1..4 : d.next_task = Priority[i] /\ FirstMatch(t.st.agent_data, i)

\* preference processing was selected while a later predicate held as well
C28_Witness ==
  \E t \in TaskSet :
    /\ IsLoop(t) /\ t.pc = "preference_processor" /\ t.st.reason = "deterministic"
    /\ \E i \in 2..4 : Needs(Priority[i], t.st.agent_data)

(* ---------------------------------------------------------------------- *)
\* C29: when the consensus worker has resolved date_selection and left a
\* null phase_tracking in agent_data, the next Supervisor decision does not
\* fault, and it selects destination_researcher when a destination is set,
\* the preferences are summarised and no catalog exists.
NullSentinel(t) ==
  /\ IsLoop(t) /\ t.pc = "supervisor"
  /\ ~t.st.agent_data.phase_tracking.present
  /\ Phases(trip)["date_selection"].status = "completed"
  /\ ~CapReached(t.st.steps + 1)

C29_NullSentinelIsSafe ==
  \A t \in TaskSet : NullSentinel(t) =>
    /\ ~SupervisorFaults(t.st)
    /\ LET ad == t.st.agent_data
       IN  (Truthy(ad.destination) /\ ad.preferences_summary # None
              /\ ad.activity_catalog = None) =>
             \A d \in supervisor_agent(t.st) : d.next_task = "destination_researcher"

(* ---------------------------------------------------------------------- *)
\* C30: when the consensus resolver has returned to the Supervisor while
\* votes of the current poll are still missing, the next decision is end
\* with done = false, and consensus_resolver is not selected again.
VotesMissing(ad) ==
  /\ ad.phase_tracking.present
  /\ ad.phase_tracking.current_phase \in PollPhases
  /\ ad.phase_tracking.phases[ad.phase_tracking.current_phase].status = "voting_in_progress"

BackFromConsensus(t) ==
  /\ IsLoop(t) /\ t.pc = "supervisor"
  /\ t.st.next_task = "consensus_resolver"
  /\ VotesMissing(t.st.agent_data)
  /\ ~CapReached(t.st.steps + 1)

C30_PausesAfterConsensus ==
  \A t \in TaskSet : BackFromConsensus(t) =>
    \A d \in supervisor_agent(t.st) : d.next_task = "end" /\ d.done = FALSE

\* C30 amended: while votes of the current poll are missing the Supervisor
\* never selects consensus_resolver, and it returns end with done = false
\* unless the rule of another worker matches
C30_PausesUnlessRuleMatches ==
  \A t \in TaskSet :
    (IsLoop(t) /\ t.pc = "supervisor" /\ VotesMissing(t.st.agent_data)
       /\ ~CapReached(t.st.steps + 1) /\ ~SupervisorFaults(t.st)) =>
      \A d \in supervisor_agent(t.st) :
        /\ d.next_task # "consensus_resolver"
        /\ DeterministicSuggestion(t.st.agent_data) = None =>
             (d.next_task = "end" /\ d.done = FALSE)

\* the resolver has just returned with votes missing and no rule matches
C30_Witness ==
  \E t \in TaskSet :
    BackFromConsensus(t) /\ DeterministicSuggestion(t.st.agent_data) = None

(* ---------------------------------------------------------------------- *)
\* C31: a run is sent to itinerary_planner by rule only when its agent_data
\* holds an activity catalog and a trip duration, holds no itinerary, and
\* shows the activity_voting phase completed.
PlannerPreconditions(ad) ==
  /\ ad.activity_catalog # None
  /\ ad.trip_duration_days # NoDays
  /\ ad.itinerary = None
  /\ ad.phase_tracking.present
  /\ ad.phase_tracking.phases["activity_voting"].status = "completed"

C31_PlannerOnlyWhenReady ==
  \A t \in TaskSet : IsLoop(t) =>
    /\ (t.pc = "supervisor" /\ ~SupervisorFaults(t.st)) =>
         \A d \in supervisor_agent(t.st) :
           (d.next_task = "itinerary_planner" /\ d.reason = "deterministic")
              => PlannerPreconditions(t.st.agent_data)
    /\ (t.pc = "itinerary_planner" /\ t.st.reason = "deterministic")
         => PlannerPreconditions(t.st.agent_data)

\* a run has been sent to the itinerary planner by rule
C31_Witness ==
  \E t \in TaskSet :
    IsLoop(t) /\ t.pc = "itinerary_planner" /\ t.st.reason = "deterministic"

(* ---------------------------------------------------------------------- *)
\* C32: resolving a phase marks it completed and moves current_phase on in
\* one write: in no state of the trip is a phase completed while
\* current_phase still points at it.
C32_CompletedIsNotCurrent ==
  \A p \in PhaseNames :
    ~(trip.phase_tracking.current_phase = p /\ Phases(trip)[p].status = "completed")

\* a resolver has completed a phase that was the current one
C32_Witness ==
  \E p \in PhaseNames :
    /\ completions[p] > 0
    /\ Phases(trip)[p].status = "completed"
    /\ trip.phase_tracking.current_phase # p

(* ---------------------------------------------------------------------- *)
\* C33: once the destination poll has been resolved on a trip whose dates
\* were compatible (a date range is selected and no date options were put
\* to the vote), date_selection is completed.
DatesAlreadyCompatible ==
  /\ trip.selected_dates # NoDates
  /\ Phases(trip)["date_selection"].date_options = <<>>

C33_CompatibleDatesCompleted ==
  (/\ completions["destination_decision"] > 0
   /\ Phases(trip)["destination_decision"].status = "completed"
   /\ DatesAlreadyCompatible)
    => Phases(trip)["date_selection"].status = "completed"

(* ---------------------- selection over any collection ------------------- *)
\* The scoring and selection of _decide_activities applied to collections of
\* any content: per category none or MaxPerInput documents, in the order of
\* CategoryOrder, whose vote counts cycle through a palette of three outcomes.
MaxPerInput == 8
PaletteLen == 3

CategoryOrder == <<"Food", "Nightlife", "Adventure", "Culture", "Relax", "Nature", "Other">>

\* net_score and downvote_count of a document
VoteOutcomes ==
  {[net_score |-> 2, downvote_count |-> 0], [net_score |-> 1, downvote_count |-> 2],
   [net_score |-> 0, downvote_count |-> 1], [net_score |-> -2, downvote_count |-> 2]}

Palettes == [1..PaletteLen -> VoteOutcomes]

\* the k-th document of the ci-th category; its name is its position
InputDoc(ci, k, position, palette) ==
  LET outcome == palette[(k % PaletteLen) + 1]
  IN  ActivityDoc(position, CategoryOrder[ci], ((k + ci) % 3) * 5,
                  outcome.net_score, outcome.downvote_count)

\* the collection holding MaxPerInput documents of each category in present
RECURSIVE InputDocs(_, _, _)
InputDocs(ci, present, palette) ==
  IF ci = 0 THEN <<>>
  ELSE LET before == InputDocs(ci - 1, present, palette)
       IN  IF CategoryOrder[ci] \in present
           THEN before \o [k \in 1..MaxPerInput |->
                             InputDoc(ci, k, Len(before) + k, palette)]
           ELSE before

SelectionInputs ==
  {InputDocs(Len(CategoryOrder), present, palette) :
     present \in SUBSET Categories, palette \in Palettes}

InitSelection ==
  /\ llm = FALSE
  /\ db_errors = FALSE
  /\ api_errors = FALSE
  /\ prefs = <<>>
  /\ trip = NewTrip
  /\ tasks = EmptyBag
  /\ published = {}
  /\ completions = [p \in PhaseNames |-> 0]
  /\ activity_docs \in SelectionInputs
  /\ activities = (activity_docs # <<>>)
  /\ research_cache = {}
  /\ itinerary_cache = FALSE
  /\ trip_deleted = FALSE
  /\ votes = NoVotes
  /\ selected_activities = <<>>
  /\ api_calls = NoCalls

\* "Score activities", "Sort by score", "Select top 35 with category balance"
ApplySelection ==
  /\ activities
  /\ selected_activities' = SelectActivities(activity_docs)
  /\ UNCHANGED <<llm, db_errors, api_errors, prefs, trip, tasks, published, completions, activities, research_cache, itinerary_cache, trip_deleted, activity_docs, votes, api_calls>>

NextSelection == ApplySelection

SpecSelection == InitSelection /\ [][NextSelection]_vars

(* ------------------------------ claim C34 ------------------------------ *)
\* 10 x net_votes + 50 x base_score, 30 less when downvotes >= 2 (the base
\* score is kept in tenths)
RankOf(d) ==
  10 * d.net_score + (50 * d.score) \div 10 - (IF d.downvote_count >= 2 THEN 30 ELSE 0)

DocNamed(docs, name) == CHOOSE d \in {docs[i] : i \in 1..Len(docs)} : d.name = name

IsSelected(sel, d) == \E k \in 1..Len(sel) : sel[k].name = d.name

\* an eligible document is passed over only for one that ranks at least as
\* high: its category is full, or the selection is
PassedOverByRank(docs, sel, d) ==
  \/ /\ CategoryCount(sel, d.category) = 7
     /\ \A k \in 1..Len(sel) : sel[k].category = d.category => sel[k].score >= RankOf(d)
  \/ /\ Len(sel) = 35
     /\ \A k \in 1..Len(sel) : sel[k].score >= RankOf(d)

SelectionOutcome(docs, sel) ==
  /\ \A k \in 1..Len(sel) :
       /\ \E i \in 1..Len(docs) : docs[i].name = sel[k].name
       /\ sel[k].score = RankOf(DocNamed(docs, sel[k].name))
       /\ sel[k].net_score >= 1
  /\ \A i, j \in 1..Len(sel) : i < j => sel[i].name # sel[j].name /\ sel[i].score >= sel[j].score
  /\ \A c \in Categories : CategoryCount(sel, c) <= 7
  /\ Len(sel) <= 35
  /\ \A i \in 1..Len(docs) :
       (docs[i].net_score >= 1 /\ ~IsSelected(sel, docs[i]))
          => PassedOverByRank(docs, sel, docs[i])

\* C34: whatever the collection holds, the activities selected on readiness
\* are taken in the order of 10 x net_votes + 50 x base_score (30 less when
\* downvotes >= 2), each has net_votes >= 1, no category has more than 7 of
\* them and there are at most 35
C34_SelectionIsRankedAndCapped ==
  [][ApplySelection => SelectionOutcome(activity_docs, selected_activities')]_vars

\* a selection that stopped at 35, filled a category, took a penalised
\* activity and left eligible ones out
C34_Witness ==
  /\ selected_activities = SelectActivities(activity_docs)
  /\ Len(selected_activities) = 35
  /\ \E c \in Categories : CategoryCount(selected_activities, c) = 7
  /\ \E k \in 1..Len(selected_activities) :
       DocNamed(activity_docs, selected_activities[k].name).downvote_count >= 2
  /\ \E i \in 1..Len(activity_docs) :
       activity_docs[i].net_score >= 1 /\ ~IsSelected(selected_activities, activity_docs[i])

(* ------------------------------ claim C38 ------------------------------ *)
\* the next step of the loop can be a GraphRecursionError: the node count is
\* used up before the supervisor runs, or by the decision that routes on
EndsByRecursionLimit(t) ==
  /\ IsLoop(t) /\ t.pc = "supervisor"
  /\ \/ OutOfSteps(t.st)
     \/ /\ ~SupervisorFaults(t.st)
        /\ \E st \in supervisor_agent(t.st) : st.next_task # "end" /\ OutOfSteps(st)

\* C38: in every run the step cap of 20 decisions ends the loop (next_task =
\* end, forced by the supervisor) before 50 node executions are reached: no
\* run is ever about to end by a recursion-limit fault, and no run holds 50
\* node executions
C38_CapBeforeRecursionLimit ==
  \A t \in TaskSet :
    IsLoop(t) =>
      /\ ~EndsByRecursionLimit(t)
      /\ t.st.nodes < 50
      /\ (t.st.steps >= 20 => t.st.next_task = "end" /\ t.st.reason = "max_steps")

\* a run that routed to a worker at every decision and was ended by the cap
C38_Witness ==
  \E t \in TaskSet :
    /\ IsLoop(t) /\ t.pc = "inspect"
    /\ t.st.reason = "max_steps"
    /\ t.st.steps = 20
    /\ t.st.nodes = 39

(* ------------------------------ claim C35 ------------------------------ *)
MaxAttempts(w) == IF w = "destination_researcher" THEN 2 ELSE 3

\* the payload key of a worker that calls the API
Payload(w, ad) == IF w = "destination_researcher" THEN ad.activity_catalog ELSE ad.itinerary

\* every attempt of the latest call of w failed
AllAttemptsFailed(w, calls) == calls[w].calls > 0 /\ calls[w].failed = calls[w].calls

\* loop t, standing at worker w, takes its step
WorkerSteps(t, w) == IsLoop(t) /\ t.pc = w /\ t \notin BagToSet(tasks')

\* C35: a destination research or itinerary step never raises: the loop is
\* back at the Supervisor with one more node executed and the same step count;
\* it makes at most 2 (research) or 3 (itinerary) attempts, and when every
\* attempt failed it made exactly that many and returned a warnings list with
\* an empty payload
C35_WorkerFaultsAreContained ==
  [][\A t \in TaskSet, w \in ApiWorkers :
       WorkerSteps(t, w) =>
         \E t2 \in BagToSet(tasks') :
           /\ t2.kind = t.kind /\ t2.pc = "supervisor"
           /\ t2.st.steps = t.st.steps /\ t2.st.nodes = t.st.nodes + 1
           /\ api_calls'[w].calls <= MaxAttempts(w)
           /\ AllAttemptsFailed(w, api_calls') =>
                /\ api_calls'[w].calls = MaxAttempts(w)
                /\ t2.st.agent_data.warnings = "unavailable"
                /\ Payload(w, t2.st.agent_data) = "empty"]_vars

\* the itinerary call failed three times and the loop is back at the Supervisor
C35_Witness ==
  /\ AllAttemptsFailed("itinerary_planner", api_calls)
  /\ \E t \in TaskSet :
       /\ IsLoop(t) /\ t.pc = "supervisor" /\ t.st.next_task = "itinerary_planner"
       /\ t.st.agent_data.warnings = "unavailable"
       /\ t.st.agent_data.itinerary = "empty"


(* ------------------------------------------------------------------------ *)
\* the graph node a position of a loop belongs to
WorkerPcs ==
  {"preference_processor", "destination_researcher", "itinerary_planner",
   "consensus_resolver", "consensus_decide", "consensus_reload"}

\* the agent_data keys a worker's return may write (the wrapper included)
WrittenKeys(pc) ==
  CASE pc = "preference_processor" -> {"preferences_summary", "destination"}
    [] pc = "destination_researcher" -> {"activity_catalog", "warnings", "phase_tracking"}
    [] pc = "itinerary_planner" -> {"itinerary", "warnings"}
    [] OTHER -> {"destination", "trip_duration_days", "phase_tracking"}

\* t2 is a task the step has put into the pool
PutIn(t2) == CopiesIn(t2, tasks') > CopiesIn(t2, tasks)

\* C36: after any step of a worker, every agent_data key the worker does not
\* write holds the value it had before the step (the update is merged key by
\* key into the existing bag).
C36_UntouchedKeysArePreserved ==
  [][\A t \in TaskSet :
       (IsLoop(t) /\ t.pc \in WorkerPcs /\ CopiesIn(t, tasks') < CopiesIn(t, tasks)) =>
         \A t2 \in BagToSet(tasks') :
           (IsLoop(t2) /\ PutIn(t2) /\ t2.kind = t.kind /\ t2.st.steps = t.st.steps) =>
             \A k \in DOMAIN t.st.agent_data \ WrittenKeys(t.pc) :
               t2.st.agent_data[k] = t.st.agent_data[k]]_vars

\* the itinerary worker has answered and the destination, the summary and the
\* catalog it read are still in the bag
C36_Witness ==
  \E t \in TaskSet :
    /\ IsLoop(t) /\ t.pc = "supervisor" /\ t.st.next_task = "itinerary_planner"
    /\ t.st.agent_data.itinerary = "full"
    /\ t.st.agent_data.warnings = "result"
    /\ Truthy(t.st.agent_data.destination)
    /\ t.st.agent_data.preferences_summary = "ok"
    /\ t.st.agent_data.activity_catalog = "full"



(* ---------------------------------------------------------------------- *)
\* a trigger that returned before it started run_orchestrator_background
AbortedTriggers ==
  {t \in TaskSet : /\ t.kind = "trigger" /\ t.pc = "done"
                   /\ t.resp \in {"no_preferences", "dates_incompatible"}}

\* no plan was written and no loop is in the pool
NoLoopLaunched ==
  /\ trip.status = "collecting_preferences"
  /\ \A t \in TaskSet : ~IsLoop(t)

\* C37: orchestrator_status is "running" only while a Supervisor loop has
\* been launched for the trip: once a trigger has aborted (no preferences, or
\* incompatible dates) without launching a loop, orchestrator_status is not
\* "running".
C37_AbortedTriggerNotRunning ==
  (AbortedTriggers # {} /\ NoLoopLaunched) => trip.orchestrator_status # "running"



(* ---------------------------------------------------------------------- *)
Upvotes(name) == Cardinality({u \in Members : votes[u, name] = "up"})
Downvotes(name) == Cardinality({u \in Members : votes[u, name] = "down"})

\* the step of _decide_activities that scores and selects
SelectionRuns == completions'["activity_voting"] > completions["activity_voting"]

\* C39: an activity that has received more upvotes than downvotes through
\* vote_activity and unvote_activity has net votes of at least 1 when the
\* selection runs, and is selected (no cap is reached with two activities).
C39_UpvotedIsEligible ==
  [][SelectionRuns =>
       \A i \in DOMAIN activity_docs :
         Upvotes(activity_docs[i].name) > Downvotes(activity_docs[i].name) =>
           /\ activity_docs[i].net_score >= 1
           /\ IsSelected(selected_activities', activity_docs[i])]_vars


====
